---- MODULE Spec2Model ----
(***************************************************************************)
(* A model of the transport core of the ika package: the TCP and serial    *)
(* clients of ika/util.py (connection upkeep, write/read exchange, failure *)
(* counting, response decoding) and the locked query/command primitives of *)
(* ika/driver.py, run by concurrent asyncio tasks on one event loop.       *)
(*                                                                         *)
(* Python strings are sequences of one-character strings.  An action is    *)
(* one run of a coroutine between two points where it really suspends.     *)
(***************************************************************************)
EXTENDS Integers, Sequences, FiniteSets, TLC

\* ------------------------------------------------------------------------
\* Bounds of the model
\* ------------------------------------------------------------------------

\* number of concurrent caller tasks sharing one device instance
NumTasks == 2

\* the failure counter is explored up to this value (it has no upper limit
\* in the code once it has passed the ceiling)
TimeoutsCap == 11

\* requests and lines in flight between the client and the device:
\* unanswered requests at the device plus unread lines in the reader
MaxWire == 1

Tasks == 1..NumTasks

\* ------------------------------------------------------------------------
\* Python string helpers
\* ------------------------------------------------------------------------

\* str.strip() without arguments removes these
Whitespace == {" ", "\t", "\n", "\r", "\f"}

Digits == {"0", "1", "2", "3", "4", "5", "6", "7", "8", "9"}

DigitVal(c) ==
  CASE c = "0" -> 0 [] c = "1" -> 1 [] c = "2" -> 2 [] c = "3" -> 3
    [] c = "4" -> 4 [] c = "5" -> 5 [] c = "6" -> 6 [] c = "7" -> 7
    [] c = "8" -> 8 [] c = "9" -> 9

\* s[i:j] with 0-based i, exclusive j, both already clipped to 0..Len(s)
Slice(s, i, j) == IF j <= i THEN << >> ELSE SubSeq(s, i + 1, j)

\* a substring test that never finds anything
ContainsNever(s, x) == FALSE

\* x in s  (substring test; the empty string is in every string)
Contains(s, x) ==
  \E i \in 0..(Len(s) - Len(x)) : Slice(s, i, i + Len(x)) = x

\* the element of a one-element set.  Values that are used more than once
\* are bound as the element of a singleton, so they are computed once.
The(S) == CHOOSE v \in S : TRUE

MinOf(S) == CHOOSE x \in S : \A y \in S : x <= y

MaxOf(S) == CHOOSE x \in S : \A y \in S : x >= y

\* s.strip(chars): drop leading and trailing characters that are in chars,
\* that is keep from the first to the last character that is not
StripSet(s, cs) ==
  LET keep == {i \in 1..Len(s) : s[i] \notin cs}
  IN  IF keep = {} THEN << >> ELSE SubSeq(s, MinOf(keep), MaxOf(keep))

Strip(s) == StripSet(s, Whitespace)

CharsOf(s) == {s[i] : i \in 1..Len(s)}

\* s[-1]; the caller checks s is not empty (Python raises IndexError)
LastChar(s) == s[Len(s)]

\* a slice that drops nothing
DropNone(s) == s

\* s[:-2]
DropLast2(s) == Slice(s, 0, IF Len(s) >= 2 THEN Len(s) - 2 ELSE 0)

\* s[0:2]
First2(s) == Slice(s, 0, IF Len(s) >= 2 THEN 2 ELSE Len(s))

\* ------------------------------------------------------------------------
\* float(): decimal literals  [sign] digits [. digits]  |  [sign] . digits
\* surrounded by whitespace.  The value is num / 10^scale, normalised so
\* that equal numbers have equal representations.  Exponents, inf, nan and
\* digit-group underscores do not occur in the lines explored here.
\* ------------------------------------------------------------------------

\* the number written by the first n characters of a digit string
RECURSIVE DigitsPrefix(_, _)
DigitsPrefix(s, n) ==
  IF n = 0 THEN 0 ELSE DigitsPrefix(s, n - 1) * 10 + DigitVal(s[n])

DigitsValue(s) == The({DigitsPrefix(v, Len(v)) : v \in {s}})

AllDigits(s) == \A i \in 1..Len(s) : s[i] \in Digits

RECURSIVE Normalise(_, _)
Normalise(num, scale) ==
  IF scale > 0 /\ num % 10 = 0
    THEN Normalise(num \div 10, scale - 1)
    ELSE [num |-> num, scale |-> scale]

\* a parse failure that passes for the number 0
NoFloatZero == [ok |-> TRUE, num |-> 0, scale |-> 0]

NoFloat == [ok |-> FALSE, num |-> 0, scale |-> 0]

\* the number with integer part ip and fraction part fp
ParseDigits(ip, fp) ==
  IF AllDigits(ip) /\ AllDigits(fp) /\ Len(ip) + Len(fp) > 0
    THEN The({ [ok |-> TRUE, num |-> n.num, scale |-> n.scale] :
               n \in {Normalise(v, Len(fp)) :
                        v \in {DigitsValue(ip \o fp)}} })
    ELSE NoFloat

\* s without sign, its decimal points at the positions dots
ParseAt(s, dots) ==
  IF dots = {} THEN ParseDigits(s, << >>)
  ELSE IF Cardinality(dots) > 1 THEN NoFloat
  ELSE The({ ParseDigits(SubSeq(s, 1, d - 1), SubSeq(s, d + 1, Len(s))) :
             d \in dots })

ParseUnsigned(s) ==
  The({ ParseAt(u, {i \in 1..Len(u) : u[i] = "."}) : u \in {s} })

ParseFloat(str) ==
  The({ IF s = << >> THEN NoFloat
        ELSE IF Head(s) = "-"
          THEN The({ [ok |-> u.ok, num |-> 0 - u.num, scale |-> u.scale] :
                     u \in {ParseUnsigned(Tail(s))} })
        ELSE IF Head(s) = "+" THEN ParseUnsigned(Tail(s))
        ELSE ParseUnsigned(s)
      : s \in {Strip(str)} })


\* ------------------------------------------------------------------------
\* Command vocabulary (driver.py protocol classes) and decode markers
\* (util.py, Client._write_and_read)
\* ------------------------------------------------------------------------

S_IN_VERSION == <<"I", "N", "_", "V", "E", "R", "S", "I", "O", "N">>
S_IN_NAME == <<"I", "N", "_", "N", "A", "M", "E">>
S_TYPE == <<"T", "Y", "P", "E">>
S_IN_PV_4 == <<"I", "N", "_", "P", "V", "_", "4">>
S_STATUS_2 == <<"S", "T", "A", "T", "U", "S", "_", "2">>
S_STATUS_4 == <<"S", "T", "A", "T", "U", "S", "_", "4">>
S_START_4 == <<"S", "T", "A", "R", "T", "_", "4">>
S_STOP_4 == <<"S", "T", "O", "P", "_", "4">>
S_STATUS == <<"S", "T", "A", "T", "U", "S">>
S_11 == <<"1", "1">>

\* ------------------------------------------------------------------------
\* Results of a call
\* ------------------------------------------------------------------------

\* kind: "none"     None
\*       "str"      a string (text)
\*       "bool"     a boolean (flag)
\*       "float"    the number num / 10^scale
\*       "raise"    the exception exc leaves the function
\*       "mismatch" the last characters differ: _clear() runs, then None
Res(kind, text, num, scale, flag, exc) ==
  [kind |-> kind, text |-> text, num |-> num, scale |-> scale,
   flag |-> flag, exc |-> exc]

RNone == Res("none", << >>, 0, 0, FALSE, "")
\* a string result that loses its text
RStrBlank(t) == Res("str", << >>, 0, 0, FALSE, "")
RStr(t) == Res("str", t, 0, 0, FALSE, "")
\* a flag that is always set
RBoolTrue(b) == Res("bool", << >>, 0, 0, TRUE, "")
RBool(b) == Res("bool", << >>, 0, 0, b, "")
RFloat(f) == Res("float", << >>, f.num, f.scale, FALSE, "")
RRaise(e) == Res("raise", << >>, 0, 0, FALSE, e)
RMismatch == Res("mismatch", << >>, 0, 0, FALSE, "")

\* a decode chain that tests the last characters before the sentinel
DecodeMismatchFirst(command, response) ==
  IF Contains(command, S_IN_VERSION) \/ Contains(command, S_IN_NAME)
       \/ Contains(command, S_TYPE)
    THEN RStr(response)
  ELSE IF Contains(response, command)
    THEN RStr(Strip(StripSet(response, CharsOf(command))))
  ELSE IF command = << >> \/ response = << >> THEN RRaise("IndexError")
  ELSE IF LastChar(command) # LastChar(response) THEN RMismatch
  ELSE IF Contains(response, S_IN_PV_4) THEN RRaise("ConnectionError")
  ELSE RRaise("ValueError")

\* The decode chain of Client._write_and_read for a response that is not
\* None: first match wins.
Decode(command, response) ==
  IF Contains(command, S_IN_VERSION) \/ Contains(command, S_IN_NAME)
       \/ Contains(command, S_TYPE)
    THEN RStr(response)
  ELSE IF Contains(response, S_IN_PV_4) THEN RRaise("ConnectionError")
  ELSE IF Contains(response, command)
    THEN RStr(Strip(StripSet(response, CharsOf(command))))
  ELSE IF command = << >> \/ response = << >> THEN RRaise("IndexError")
  ELSE IF LastChar(command) # LastChar(response) THEN RMismatch
  ELSE IF Contains(command, S_STATUS_2) THEN RRaise("NotImplementedError")
  ELSE IF Contains(command, S_STATUS_4) THEN RBool(response[1] = "1")
  ELSE IF Contains(response, S_START_4) \/ Contains(response, S_STOP_4)
    THEN RBool(TRUE)
  ELSE IF Contains(command, S_STATUS) THEN RBool(First2(response) = S_11)
  ELSE The({ IF f.ok THEN RFloat(f) ELSE RRaise("ValueError") :
             f \in {ParseFloat(DropLast2(response))} })


\* ------------------------------------------------------------------------
\* The commands the callers issue and the lines the device sends
\* ------------------------------------------------------------------------

READ_ACTUAL_SPEED == S_IN_PV_4
START_MOTOR == S_START_4

\* the calls a task can make: query(cmd) or command(cmd)
CallChoices ==
  { [op |-> "query", cmd |-> READ_ACTUAL_SPEED],
    [op |-> "command", cmd |-> START_MOTOR] }

\* raw lines on the wire: a speed readout, a torque readout (wrong last
\* character for a speed query), and text where a number is expected
LineSpeed == <<"1", ".", "5", " ", "4", " ", "\r", "\n">>
LineTorque == <<"2", "0", " ", "5", " ", "\r", "\n">>
LineText == <<"E", "R", "R", " ", "4", " ", "\r", "\n">>

DeviceLines == {LineSpeed, LineTorque, LineText}

\* ------------------------------------------------------------------------
\* State
\* ------------------------------------------------------------------------

VARIABLES
  kind,          \* "tcp" (TcpClient) or "serial" (SerialClient)
  open,          \* Client.open
  timeouts,      \* Client.timeouts, the failure counter
  reconnecting,  \* Client.reconnecting
  connection,    \* Client.connection: "empty" ({}) or "stream" (reader, writer)
  streamOpen,    \* the writer (tcp) or the serial port is not closed
  peerClosed,    \* the other end has closed the stream / was unplugged
  rxbuf,         \* lines received and not yet read
  pending,       \* requests the device has received and not answered
  lock,          \* IKADevice.lock
  pc,            \* where each task is suspended
  call,          \* the call each task is making
  last           \* the call that ended in the last step, if one did

\* Two devices side by side (section "Two devices").  A specification
\* moves the variables of its own section and leaves the others at rest.
VARIABLES
  hw,            \* IKADevice.hw of each device: the client object it made
  lockOf,        \* IKADevice.lock of each device: its lock object, or "none"
  clients,       \* the client objects: open, timeouts, reconnecting, stream
  locks,         \* the lock objects
  at             \* where each task of each device is suspended

\* the variables of the single device
one ==
  <<kind, open, timeouts, reconnecting, connection, streamOpen, peerClosed,
    rxbuf, pending, lock, pc, call, last>>

pair == <<hw, lockOf, clients, locks, at>>

\* Construction of a device from an address string (section
\* "Construction").
VARIABLES
  addr,          \* the address string handed to the constructor
  dev            \* what the constructor left, and the first connect attempt

ctor == <<addr, dev>>

\* A mock device driven through set, control and get (section "Mock
\* devices").
VARIABLES
  mock,          \* the mock object: its class and its state dict
  seen           \* the call made in the last step and how it ended

mocks == <<mock, seen>>

\* The Transport of driver_pat.py and the request made on it (section
\* "Legacy transport").
VARIABLES
  transport,     \* the Transport object: its attributes and its lock
  request        \* where the request is suspended, and how the last one ended

legacy == <<transport, request>>

\* what the actions of one section leave alone
others == <<pair, ctor, mocks, legacy>>

notPair == <<one, ctor, mocks, legacy>>

notCtor == <<one, pair, mocks, legacy>>

notMock == <<one, pair, ctor, legacy>>

notLegacy == <<one, pair, ctor, mocks>>

vars == <<one, pair, ctor, mocks, legacy>>

\* Client.max_timeouts
max_timeouts == 10

NoCall == [op |-> "", cmd |-> << >>]

\* What a call did before it ended: the outcome of its connect attempt
\* ("none" if it made none), whether it wrote its command, how its read
\* ended, and for a line that was read the request it answers (by: the
\* task whose running call sent it, 0 if that call is over; why: "live" or
\* how that call ended).  The record of an ended call adds the counter
\* before and after its last step (to0, to1), the open flag before and
\* after it (wasOpen, openAfter) and the reconnecting flag before it.
\* resp is the response string that was decoded, if one was.
Ev(conn, wrote, read, by, why) ==
  [conn |-> conn, wrote |-> wrote, read |-> read, by |-> by, why |-> why,
   resp |-> << >>]

NoLast ==
  [task |-> 0, op |-> "", cmd |-> << >>, conn |-> "none", wrote |-> FALSE,
   read |-> "none", by |-> 0, why |-> "", to0 |-> 0, to1 |-> 0,
   exit |-> "", res |-> RNone, wasOpen |-> FALSE, openAfter |-> FALSE,
   wasRec |-> FALSE, resp |-> << >>]

\* ------------------------------------------------------------------------
\* asyncio.Lock, as used by `async with self.lock`
\* ------------------------------------------------------------------------

\* self.lock = None.  ident names the lock object (0: there is none yet)
NoLock ==
  [made |-> FALSE, locked |-> FALSE, waiters |-> << >>, woken |-> {},
   ident |-> 0]

\* a first-use test that makes a new lock object at every call
LockAnew(l) ==
  [NoLock EXCEPT !.made = TRUE, !.ident = IF l.ident = 1 THEN 2 ELSE 1]

\* `if not self.lock: self.lock = asyncio.Lock()`: a lock object is made
\* only when there is none (a Lock is never false)
LockOnFirstUse(l) ==
  IF l.made THEN l ELSE [l EXCEPT !.made = TRUE, !.ident = 1]

\* a lock that excludes nobody
LockFreeAlways(l) == TRUE

\* a lock that lets a newcomer pass the waiters
LockFreeBarging(l) == ~l.locked

\* acquire() takes the lock at once only if it is free and nobody waits
LockFree(l) == ~l.locked /\ l.waiters = << >>

LockTake(l) == [l EXCEPT !.made = TRUE, !.locked = TRUE]

LockEnqueue(l, t) == [l EXCEPT !.made = TRUE, !.waiters = Append(@, t)]

\* a release that wakes nobody
LockReleaseSilent(l) == [l EXCEPT !.locked = FALSE]

\* _wake_up_first: the first waiter's future is given its result
WakeUpFirst(l) ==
  IF l.waiters = << >> THEN l
  ELSE [l EXCEPT !.woken = @ \cup {Head(l.waiters)}]

LockRelease(l) == WakeUpFirst([l EXCEPT !.locked = FALSE])

Without(q, t) == SelectSeq(q, LAMBDA x : x # t)

\* a woken waiter runs: it leaves the queue and holds the lock
LockWokenTake(l, t) ==
  [l EXCEPT !.waiters = Without(@, t), !.woken = @ \ {t}, !.locked = TRUE]

\* a waiter is cancelled: it leaves the queue, and passes on a wake-up
LockCancelWait(l, t) ==
  LET l1 == [l EXCEPT !.waiters = Without(@, t), !.woken = @ \ {t}]
  IN  IF ~l1.locked THEN WakeUpFirst(l1) ELSE l1

\* ------------------------------------------------------------------------
\* The stream
\* ------------------------------------------------------------------------

Request(t) == [by |-> t, why |-> "live"]

\* the device takes a request.  With the wire full the oldest unanswered
\* request is never answered; if there is none, this one is not.
Send(rx, pd, req) ==
  IF Len(rx) + Len(pd) < MaxWire THEN Append(pd, req)
  ELSE IF pd # << >> THEN Append(Tail(pd), req)
  ELSE pd

\* when a call ends, what it left on the wire belongs to no running call
MarkStale(q, t, why) ==
  [i \in 1..Len(q) |->
     IF q[i].by = t THEN [q[i] EXCEPT !.by = 0, !.why = why] ELSE q[i]]

\* ------------------------------------------------------------------------
\* Two devices: the objects each one makes
\* ------------------------------------------------------------------------

\* two devices, each made by its own call of the constructor
Devices == {"a", "b"}

\* the calls each device can have under way
Callers == Devices \X Tasks

\* a constructor that hands every device the client object of device "a"
NewClientShared(d) == "a"

\* IKADevice.__init__: `self.hw = TcpClient(address=address)` makes a new
\* client object, named here after the device that made it
NewClient(d) == d

\* `self.lock = asyncio.Lock()` on first use makes a new lock object
NewLock(d) == d

\* Client.__init__ and TcpClient.__init__: the attributes of a new client
FreshClient ==
  [open |-> FALSE, timeouts |-> 0, reconnecting |-> FALSE, stream |-> "none"]

\* both devices have been constructed
PairFresh ==
  /\ hw = [d \in Devices |-> NewClient(d)]
  /\ lockOf = [d \in Devices |-> "none"]
  /\ clients = [o \in Devices |-> FreshClient]
  /\ locks = [o \in Devices |-> NoLock]
  /\ at = [c \in Callers |-> "idle"]

\* Python values: a string, an integer, a float (num / 10^scale), None
PyStr(s) == [type |-> "str", text |-> s, num |-> 0, scale |-> 0]

PyInt(n) == [type |-> "int", text |-> << >>, num |-> n, scale |-> 0]

PyFloat(n, k) == [type |-> "float", text |-> << >>, num |-> n, scale |-> k]

PyNone == [type |-> "none", text |-> << >>, num |-> 0, scale |-> 0]

\* no constructor has run
NotMade ==
  [state |-> "new", kind |-> "", address |-> PyNone, port |-> PyNone,
   exc |-> "", conn |-> "none"]

CtorRest == addr = << >> /\ dev = NotMade

\* no call has been made
NoSeen ==
  [op |-> "", kind |-> "", value |-> PyNone, on |-> FALSE, exit |-> "",
   exc |-> "", sent |-> << >>, report |-> << >>]

MockRest == mock = [cls |-> ""] /\ seen = NoSeen

\* Transport.__init__: no connection, not connected, counter 0, a lock
\* that is free.  The attribute `reconnecting` is not assigned.
NewTransport ==
  [connected |-> FALSE, connection |-> "none", writerOpen |-> FALSE,
   timeouts |-> 0, reconnecting |-> "unset", locked |-> FALSE]

\* no request has been made
NoRequest ==
  [pc |-> "idle", conn |-> "none", first |-> FALSE, read |-> "none",
   exit |-> "", exc |-> "", res |-> "", to0 |-> 0]

LegacyRest == transport = NewTransport /\ request = NoRequest

\* the single-device variables at rest
OneAtRest ==
  /\ kind = "tcp"
  /\ open = FALSE
  /\ timeouts = 0
  /\ reconnecting = FALSE
  /\ connection = "empty"
  /\ streamOpen = FALSE
  /\ peerClosed = FALSE
  /\ rxbuf = << >>
  /\ pending = << >>
  /\ lock = NoLock
  /\ pc = [t \in Tasks |-> "idle"]
  /\ call = [t \in Tasks |-> NoCall]
  /\ last = NoLast

\* the sections that a specification does not move
Rest == PairFresh /\ CtorRest /\ MockRest /\ LegacyRest

Init ==
  /\ Rest
  /\ kind \in {"tcp", "serial"}
  /\ open = FALSE
  /\ timeouts = 0
  /\ reconnecting = FALSE
  /\ connection = "empty"
  /\ streamOpen = (kind = "serial")
  /\ peerClosed = FALSE
  /\ rxbuf = << >>
  /\ pending = << >>
  /\ lock = NoLock
  /\ pc = [t \in Tasks |-> "idle"]
  /\ call = [t \in Tasks |-> NoCall]
  /\ last = NoLast


\* the fields of the Client object
client ==
  <<kind, open, timeouts, reconnecting, connection, streamOpen, peerClosed>>

\* ------------------------------------------------------------------------
\* Pieces of the handlers
\* ------------------------------------------------------------------------

\* The call c of task t ends: `async with` has released the lock (l is the
\* lock after the release) and the result goes to the caller.  The step
\* that uses this piece sets the client's fields first.
Finish(t, c, ev, exit, res, stale, l, rx, pd) ==
  /\ pc' = [pc EXCEPT ![t] = "idle"]
  /\ call' = [call EXCEPT ![t] = NoCall]
  /\ lock' = l
  /\ rxbuf' = MarkStale(rx, t, stale)
  /\ pending' = MarkStale(pd, t, stale)
  /\ last' = [task |-> t, op |-> c.op, cmd |-> c.cmd, conn |-> ev.conn,
              wrote |-> ev.wrote, read |-> ev.read, by |-> ev.by,
              why |-> ev.why, to0 |-> timeouts, to1 |-> timeouts',
              exit |-> exit, res |-> res, wasOpen |-> open,
              openAfter |-> open', wasRec |-> reconnecting,
              resp |-> ev.resp]
  /\ UNCHANGED others

\* a close that clears the flag and leaves the writer open
CloseFxLeak(o) ==
  [open |-> IF kind = "tcp" THEN FALSE ELSE o, streamOpen |-> streamOpen,
   peerClosed |-> peerClosed]

\* close(): TcpClient closes the writer if open and clears the flag;
\* SerialClient closes the port and leaves the flag alone
CloseFx(o) ==
  IF kind = "tcp"
    THEN [open |-> FALSE, streamOpen |-> IF o THEN FALSE ELSE streamOpen,
          peerClosed |-> FALSE]
    ELSE [open |-> o, streamOpen |-> FALSE, peerClosed |-> peerClosed]

\* a ceiling test that fires at every failure
AtCeilingAlways(n) == TRUE

\* a ceiling test that fires one failure late
AtCeilingLate(n) == n > max_timeouts

\* the ceiling test in the except branch of _handle_communication
AtCeiling(n) == n = max_timeouts

\* the except branch of _handle_communication: count, close at the
\* ceiling, return None (and _write_and_read passes the None on)
CommFailure(t, c, ev, l, o, rx, pd) ==
  LET hit == AtCeiling(timeouts + 1)
      fx == CloseFx(o)
  IN  /\ timeouts < TimeoutsCap
      /\ timeouts' = timeouts + 1
      /\ open' = IF hit THEN fx.open ELSE o
      /\ streamOpen' = IF hit THEN fx.streamOpen ELSE streamOpen
      /\ peerClosed' = IF hit THEN fx.peerClosed ELSE peerClosed
      /\ UNCHANGED <<kind, reconnecting, connection>>
      /\ Finish(t, c, ev, "return", RNone, "timedout", LockRelease(l),
                IF hit THEN << >> ELSE rx, IF hit THEN << >> ELSE pd)

\* The command has been written: a query goes on to wait for its line, a
\* command is done.  live: the device receives what is written.
Written(t, c, conn, l, rx, pd, live) ==
  LET pd1 == IF live THEN Send(rx, pd, Request(t)) ELSE pd
  IN  IF c.op = "query"
        THEN /\ pc' = [pc EXCEPT
                       ![t] = IF kind = "tcp" THEN "read" ELSE "sleep"]
             /\ call' = [call EXCEPT ![t] = c]
             /\ lock' = l
             /\ rxbuf' = rx
             /\ pending' = pd1
             /\ last' = NoLast
             /\ UNCHANGED others
        ELSE Finish(t, c, Ev(conn, TRUE, "none", 0, ""), "return", RNone,
                    "other", LockRelease(l), rx, pd1)

\* a body that makes a connect attempt also on an open connection
EnterReconnects(t, c, l) ==
  /\ pc' = [pc EXCEPT ![t] = "conn"]
  /\ call' = [call EXCEPT ![t] = c]
  /\ lock' = l
  /\ last' = NoLast
  /\ UNCHANGED others
  /\ UNCHANGED <<client, rxbuf, pending>>

\* the body of `async with self.lock` up to its first suspension
Enter(t, c, l) ==
  IF kind = "tcp"
    THEN IF open
           THEN /\ UNCHANGED client
                /\ Written(t, c, "none", l, rxbuf, pending, ~peerClosed)
           ELSE /\ pc' = [pc EXCEPT ![t] = "conn"]
                /\ call' = [call EXCEPT ![t] = c]
                /\ lock' = l
                /\ last' = NoLast
                /\ UNCHANGED others
                /\ UNCHANGED <<client, rxbuf, pending>>
  ELSE IF c.op = "query"
    THEN IF streamOpen /\ ~peerClosed
           THEN /\ open' = TRUE
                /\ UNCHANGED <<kind, timeouts, reconnecting, connection,
                               streamOpen, peerClosed>>
                /\ Written(t, c, "none", l, rxbuf, pending, TRUE)
           ELSE CommFailure(t, c, Ev("none", FALSE, "none", 0, ""), l, TRUE,
                            rxbuf, pending)
  ELSE IF streamOpen /\ ~peerClosed
    THEN /\ UNCHANGED client
         /\ Written(t, c, "none", l, rxbuf, pending, TRUE)
    ELSE /\ UNCHANGED client
         /\ Finish(t, c, Ev("none", FALSE, "none", 0, ""), "raise",
                   RRaise("OSError"), "other", LockRelease(l), rxbuf, pending)

\* a read that leaves the counter as it was
AfterReadKept(n) == n

\* the counter after a response string has been read
AfterRead(n) == 0

\* a response string has been read: reset the counter and decode
GotLine(t, ev, response, rx) ==
  \E resp \in {response} : \E r \in {Decode(call[t].cmd, resp)} :
      /\ timeouts' = AfterRead(timeouts)
      /\ UNCHANGED <<kind, open, reconnecting, connection, streamOpen,
                     peerClosed>>
      /\ IF r.kind = "mismatch"
           THEN /\ pc' = [pc EXCEPT ![t] = "clear"]
                /\ rxbuf' = rx
                /\ last' = NoLast
                /\ UNCHANGED others
                /\ UNCHANGED <<call, pending, lock>>
           ELSE Finish(t, call[t], [ev EXCEPT !.resp = resp],
                       IF r.kind = "raise" THEN "raise" ELSE "return",
                       r, "other", LockRelease(lock), rx, pending)


\* ------------------------------------------------------------------------
\* Actions
\* ------------------------------------------------------------------------

\* a task calls query or command: the lock is made on first use and taken
\* at once if it is free, else the task queues
Call(t) ==
  /\ pc[t] = "idle"
  /\ \E c \in CallChoices : \E l \in {LockOnFirstUse(lock)} :
       IF LockFree(l)
         THEN Enter(t, c, LockTake(l))
         ELSE /\ pc' = [pc EXCEPT ![t] = "wait"]
              /\ call' = [call EXCEPT ![t] = c]
              /\ lock' = LockEnqueue(l, t)
              /\ last' = NoLast
              /\ UNCHANGED others
              /\ UNCHANGED <<client, rxbuf, pending>>

\* a waiter that was woken gets the lock
Acquire(t) ==
  /\ pc[t] = "wait"
  /\ t \in lock.woken
  /\ Enter(t, call[t], LockWokenTake(lock, t))

\* _handle_connection: the connect attempt succeeds
ConnectOk(t) ==
  /\ pc[t] = "conn"
  /\ open' = TRUE
  /\ connection' = "stream"
  /\ streamOpen' = TRUE
  /\ peerClosed' = FALSE
  /\ reconnecting' = FALSE
  /\ UNCHANGED <<kind, timeouts>>
  /\ Written(t, call[t], "ok", lock, << >>, << >>, TRUE)

\* TcpClient._write after a failed connect attempt: KeyError when there
\* has never been a stream, else the closed writer drops the bytes
WriteUnconnected(t) ==
  IF connection = "empty"
    THEN Finish(t, call[t], Ev("fail", FALSE, "none", 0, ""), "raise",
                RRaise("KeyError"), "other", LockRelease(lock), rxbuf, pending)
    ELSE Finish(t, call[t], Ev("fail", TRUE, "none", 0, ""), "return",
                RNone, "other", LockRelease(lock), rxbuf, pending)

\* a query that goes on to write although the connect attempt failed
QueryUnconnectedWrites(t) == WriteUnconnected(t)

\* _write_and_read after a failed connect attempt: open is false, the
\* else branch returns None
QueryUnconnected(t) ==
  Finish(t, call[t], Ev("fail", FALSE, "none", 0, ""), "return", RNone,
         "other", LockRelease(lock), rxbuf, pending)

\* _handle_connection: the connect attempt times out or is refused
ConnectFail(t) ==
  /\ pc[t] = "conn"
  /\ reconnecting' = TRUE
  /\ UNCHANGED <<kind, open, timeouts, connection, streamOpen, peerClosed>>
  /\ IF call[t].op = "query" THEN QueryUnconnected(t) ELSE WriteUnconnected(t)

\* TcpClient._readline returns a line
TcpReadLine(t) ==
  /\ pc[t] = "read"
  /\ rxbuf # << >>
  /\ LET ln == Head(rxbuf)
     IN  GotLine(t, Ev("none", TRUE, "line", ln.by, ln.why), Strip(ln.raw),
                 Tail(rxbuf))

\* wait_for gives up on the line: asyncio.TimeoutError
TcpReadTimeout(t) ==
  /\ pc[t] = "read"
  /\ rxbuf = << >>
  /\ ~peerClosed
  /\ CommFailure(t, call[t], Ev("none", TRUE, "timeout", 0, ""), lock, open,
                 rxbuf, pending)

\* the stream was reset: readuntil raises an OSError
TcpReadReset(t) ==
  /\ pc[t] = "read"
  /\ rxbuf = << >>
  /\ peerClosed
  /\ CommFailure(t, call[t], Ev("none", TRUE, "oserror", 0, ""), lock, open,
                 rxbuf, pending)

\* the stream ended: readuntil raises IncompleteReadError, which
\* _write_and_read logs and turns into None
TcpReadEof(t) ==
  /\ pc[t] = "read"
  /\ rxbuf = << >>
  /\ peerClosed
  /\ UNCHANGED client
  /\ Finish(t, call[t], Ev("none", TRUE, "eof", 0, ""), "return", RNone,
            "other", LockRelease(lock), rxbuf, pending)

\* SerialClient._readline after the sleep: a line is there
SerialReadLine(t) ==
  /\ pc[t] = "sleep"
  /\ ~peerClosed
  /\ rxbuf # << >>
  /\ LET ln == Head(rxbuf)
     IN  GotLine(t, Ev("none", TRUE, "line", ln.by, ln.why), Strip(ln.raw),
                 Tail(rxbuf))

\* SerialClient._readline after the sleep: the port's read timeout passes
\* and readline returns the empty string
SerialReadTimeout(t) ==
  /\ pc[t] = "sleep"
  /\ ~peerClosed
  /\ rxbuf = << >>
  /\ GotLine(t, Ev("none", TRUE, "timeout", 0, ""), << >>, rxbuf)

\* SerialClient._readline after the sleep: the port raises SerialException
SerialReadError(t) ==
  /\ pc[t] = "sleep"
  /\ peerClosed
  /\ CommFailure(t, call[t], Ev("none", TRUE, "oserror", 0, ""), lock, open,
                 rxbuf, pending)

\* _clear: the stray bytes are read and dropped (an ended tcp stream gives
\* the empty string at once)
ClearJunk(t) ==
  /\ pc[t] = "clear"
  /\ kind = "tcp" => (rxbuf # << >> \/ peerClosed)
  /\ kind = "serial" => ~peerClosed
  /\ UNCHANGED client
  /\ Finish(t, call[t], Ev("none", TRUE, "line", 0, ""), "return", RNone,
            "other", LockRelease(lock), << >>, pending)

\* _clear: nothing arrives within the drain's timeout.  `except
\* TimeoutError` catches asyncio.TimeoutError on Python >= 3.11 only; on
\* 3.7 to 3.10 it leaves query.
ClearTimeout(t) ==
  /\ pc[t] = "clear"
  /\ kind = "tcp"
  /\ rxbuf = << >>
  /\ ~peerClosed
  /\ UNCHANGED client
  /\ \E caught \in BOOLEAN :
       Finish(t, call[t], Ev("none", TRUE, "line", 0, ""),
              IF caught THEN "return" ELSE "raise",
              IF caught THEN RNone ELSE RRaise("TimeoutError"),
              "other", LockRelease(lock), rxbuf, pending)

\* _clear on a serial port whose device is gone: SerialException leaves
\* query
ClearError(t) ==
  /\ pc[t] = "clear"
  /\ kind = "serial"
  /\ peerClosed
  /\ UNCHANGED client
  /\ Finish(t, call[t], Ev("none", TRUE, "line", 0, ""), "raise",
            RRaise("OSError"), "other", LockRelease(lock), rxbuf, pending)

\* a cancelled holder that keeps the lock
LockAfterCancelKept(l, t, waiting) ==
  IF waiting THEN LockCancelWait(l, t) ELSE l

\* what the lock is after the task that is cancelled has left
LockAfterCancel(l, t, waiting) ==
  IF waiting THEN LockCancelWait(l, t) ELSE LockRelease(l)

\* the caller's task is cancelled at a suspension point
Cancel(t) ==
  /\ pc[t] \in {"wait", "conn", "read", "sleep", "clear"}
  /\ UNCHANGED client
  /\ Finish(t, call[t],
            Ev("none", pc[t] \in {"read", "sleep", "clear"}, "none", 0, ""),
            IF pc[t] = "wait" THEN "cancel_wait" ELSE "cancel_hold",
            RNone, "cancelled", LockAfterCancel(lock, t, pc[t] = "wait"),
            rxbuf, pending)

\* the device answers its oldest request
DeviceReply ==
  /\ pending # << >>
  /\ ~peerClosed
  /\ \E raw \in DeviceLines :
       rxbuf' = Append(rxbuf, [raw |-> raw, by |-> Head(pending).by,
                               why |-> Head(pending).why])
  /\ pending' = Tail(pending)
  /\ last' = NoLast
  /\ UNCHANGED others
  /\ UNCHANGED <<client, lock, pc, call>>

\* the other end closes the stream (tcp) or the port's device goes (serial)
PeerClose ==
  /\ streamOpen
  /\ kind = "tcp" => open
  /\ ~peerClosed
  /\ peerClosed' = TRUE
  /\ pending' = << >>
  /\ last' = NoLast
  /\ UNCHANGED others
  /\ UNCHANGED <<kind, open, timeouts, reconnecting, connection, streamOpen,
                 rxbuf, lock, pc, call>>

Next ==
  \/ \E t \in Tasks : Call(t)
  \/ \E t \in Tasks : Acquire(t)
  \/ \E t \in Tasks : ConnectOk(t)
  \/ \E t \in Tasks : ConnectFail(t)
  \/ \E t \in Tasks : TcpReadLine(t)
  \/ \E t \in Tasks : TcpReadTimeout(t)
  \/ \E t \in Tasks : TcpReadReset(t)
  \/ \E t \in Tasks : TcpReadEof(t)
  \/ \E t \in Tasks : SerialReadLine(t)
  \/ \E t \in Tasks : SerialReadTimeout(t)
  \/ \E t \in Tasks : SerialReadError(t)
  \/ \E t \in Tasks : ClearJunk(t)
  \/ \E t \in Tasks : ClearTimeout(t)
  \/ \E t \in Tasks : ClearError(t)
  \/ \E t \in Tasks : Cancel(t)
  \/ DeviceReply
  \/ PeerClose

Spec == Init /\ [][Next]_vars


\* The event loop runs every task that can take a step: a woken waiter
\* gets the lock, a connect attempt and a read end (by their result or by
\* their timeout), a drain ends.
Progress(t) ==
  \/ Acquire(t)
  \/ ConnectOk(t)
  \/ ConnectFail(t)
  \/ TcpReadLine(t)
  \/ TcpReadTimeout(t)
  \/ TcpReadReset(t)
  \/ TcpReadEof(t)
  \/ SerialReadLine(t)
  \/ SerialReadTimeout(t)
  \/ SerialReadError(t)
  \/ ClearJunk(t)
  \/ ClearTimeout(t)
  \/ ClearError(t)

FairSpec == Init /\ [][Next]_vars /\ \A t \in Tasks : WF_vars(Progress(t))

\* wait_for gives up on the line with the counter at TimeoutsCap, past the
\* ceiling.  The code counts on; the ceiling test is an equality, so every
\* value past the ceiling behaves alike and the counter here stands for
\* "TimeoutsCap or more".
TcpReadTimeoutPast(t) ==
  /\ pc[t] = "read"
  /\ rxbuf = << >>
  /\ ~peerClosed
  /\ timeouts = TimeoutsCap
  /\ timeouts > max_timeouts
  /\ UNCHANGED client
  /\ Finish(t, call[t], Ev("none", TRUE, "timeout", 0, ""), "return", RNone,
            "timedout", LockRelease(lock), rxbuf, pending)

LiveNext ==
  \/ Next
  \/ \E t \in Tasks : TcpReadTimeoutPast(t)

\* every awaited step ends: the connect attempt and the reads are bounded
\* by wait_for, also when the counter is past the ceiling
LiveSpec ==
  /\ Init
  /\ [][LiveNext]_vars
  /\ \A t \in Tasks : WF_vars(Progress(t) \/ TcpReadTimeoutPast(t))


\* ------------------------------------------------------------------------
\* Scoped use (`async with device`) and explicit close
\* ------------------------------------------------------------------------

\* pc is "out" before the scope is entered and "left" after it is left

\* the instance has been constructed and its scope not yet entered
ScopeInit ==
  /\ Rest
  /\ kind \in {"tcp", "serial"}
  /\ open = FALSE
  /\ timeouts = 0
  /\ reconnecting = FALSE
  /\ connection = "empty"
  /\ streamOpen = (kind = "serial")
  /\ peerClosed = FALSE
  /\ rxbuf = << >>
  /\ pending = << >>
  /\ lock = NoLock
  /\ pc = [t \in Tasks |-> "out"]
  /\ call = [t \in Tasks |-> NoCall]
  /\ last = NoLast

\* IKADevice.__aenter__: return self
AEnter ==
  /\ \A t \in Tasks : pc[t] = "out"
  /\ pc' = [t \in Tasks |-> "idle"]
  /\ last' = NoLast
  /\ UNCHANGED others
  /\ UNCHANGED <<client, rxbuf, pending, lock, call>>

\* IKADevice.__aexit__: return.  The body of the scope has ended, by its
\* last statement or by an exception of one of its calls.
AExit ==
  /\ \A t \in Tasks : pc[t] = "idle"
  /\ pc' = [t \in Tasks |-> "left"]
  /\ last' = NoLast
  /\ UNCHANGED others
  /\ UNCHANGED <<client, rxbuf, pending, lock, call>>

\* the user calls hw.close() while no call is running
Close ==
  /\ \A t \in Tasks : pc[t] \in {"out", "idle", "left"}
  /\ LET fx == CloseFx(open)
     IN  /\ open' = fx.open
         /\ streamOpen' = fx.streamOpen
         /\ peerClosed' = fx.peerClosed
         /\ last' = [NoLast EXCEPT !.op = "close", !.exit = "return",
                                   !.wasOpen = open, !.openAfter = fx.open]
  /\ UNCHANGED others
  /\ rxbuf' = << >>
  /\ pending' = << >>
  /\ UNCHANGED <<kind, timeouts, reconnecting, connection, lock, pc, call>>

ScopeNext ==
  \/ AEnter
  \/ AExit
  \/ Close
  \/ Next

ScopeSpec == ScopeInit /\ [][ScopeNext]_vars

\* ------------------------------------------------------------------------
\* Two devices: queries on both, each through its own client and lock
\* ------------------------------------------------------------------------

\* the client object and the lock object a call of device d works on
HwOf(d) == clients[hw[d]]

LockOfDevice(d) == locks[NewLock(d)]

\* `async with self.lock` has been entered: _handle_connection returns at
\* once on an open client (the command is written and the line awaited),
\* else it tries to connect
PairEnter(c, l) ==
  /\ lockOf' = [lockOf EXCEPT ![c[1]] = NewLock(c[1])]
  /\ locks' = [locks EXCEPT ![NewLock(c[1])] = l]
  /\ at' = [at EXCEPT ![c] = IF HwOf(c[1]).open THEN "read" ELSE "conn"]
  /\ UNCHANGED <<hw, clients, notPair>>

\* the call ends: the lock is released
PairLeave(c, cl, l) ==
  /\ clients' = [clients EXCEPT ![hw[c[1]]] = cl]
  /\ locks' = [locks EXCEPT ![lockOf[c[1]]] = l]
  /\ at' = [at EXCEPT ![c] = "idle"]
  /\ UNCHANGED <<hw, lockOf, notPair>>

\* IKADevice.query: the lock is made on first use, taken if free
PairCall(c) ==
  /\ at[c] = "idle"
  /\ IF LockFree(LockOfDevice(c[1]))
       THEN PairEnter(c, LockTake(LockOfDevice(c[1])))
       ELSE /\ lockOf' = [lockOf EXCEPT ![c[1]] = NewLock(c[1])]
            /\ locks' = [locks EXCEPT
                         ![NewLock(c[1])] = LockEnqueue(LockOfDevice(c[1]), c)]
            /\ at' = [at EXCEPT ![c] = "wait"]
            /\ UNCHANGED <<hw, clients, notPair>>

\* a waiter that was woken gets the lock
PairAcquire(c) ==
  /\ at[c] = "wait"
  /\ c \in LockOfDevice(c[1]).woken
  /\ PairEnter(c, LockWokenTake(LockOfDevice(c[1]), c))

\* _handle_connection: connected, the command is written
PairConnectOk(c) ==
  /\ at[c] = "conn"
  /\ clients' = [clients EXCEPT
                 ![hw[c[1]]] = [@ EXCEPT !.open = TRUE, !.stream = "open",
                                         !.reconnecting = FALSE]]
  /\ at' = [at EXCEPT ![c] = "read"]
  /\ UNCHANGED <<hw, lockOf, locks, notPair>>

\* _handle_connection: the attempt fails, query returns None
PairConnectFail(c) ==
  /\ at[c] = "conn"
  /\ PairLeave(c, [HwOf(c[1]) EXCEPT !.reconnecting = TRUE],
               LockRelease(LockOfDevice(c[1])))

\* _handle_communication: the line is read, the counter is reset
PairReadLine(c) ==
  /\ at[c] = "read"
  /\ PairLeave(c, [HwOf(c[1]) EXCEPT !.timeouts = AfterRead(@)],
               LockRelease(LockOfDevice(c[1])))

\* _handle_communication: the read times out: count, close at the ceiling
PairReadTimeout(c) ==
  /\ at[c] = "read"
  /\ HwOf(c[1]).timeouts < TimeoutsCap
  /\ LET cl == HwOf(c[1])
         hit == AtCeiling(cl.timeouts + 1)
     IN  PairLeave(c,
                   [cl EXCEPT !.timeouts = @ + 1,
                              !.open = IF hit THEN FALSE ELSE @,
                              !.stream = IF hit /\ cl.open THEN "closed"
                                         ELSE @],
                   LockRelease(LockOfDevice(c[1])))

\* the caller's task is cancelled at a suspension point
PairCancel(c) ==
  /\ at[c] \in {"wait", "conn", "read"}
  /\ PairLeave(c, HwOf(c[1]),
               LockAfterCancel(LockOfDevice(c[1]), c, at[c] = "wait"))

PairNext ==
  \/ \E c \in Callers : PairCall(c)
  \/ \E c \in Callers : PairAcquire(c)
  \/ \E c \in Callers : PairConnectOk(c)
  \/ \E c \in Callers : PairConnectFail(c)
  \/ \E c \in Callers : PairReadLine(c)
  \/ \E c \in Callers : PairReadTimeout(c)
  \/ \E c \in Callers : PairCancel(c)

\* two fresh devices, none of whose calls has begun
PairInit ==
  PairFresh /\ OneAtRest /\ CtorRest /\ MockRest /\ LegacyRest

PairSpec == PairInit /\ [][PairNext]_vars

\* ------------------------------------------------------------------------
\* Construction: IKADevice(address) and the first connect attempt
\* ------------------------------------------------------------------------

\* the longest address string tried
MaxAddr == 4

AddrChars == {"h", "2", ":"}

\* the prefixes by which IKADevice.__init__ takes an address for a serial
\* port
DevPrefix == <<"/", "d", "e", "v">>

ComPrefix == <<"C", "O", "M">>

\* every string over AddrChars up to MaxAddr characters, a serial path, a
\* COM port, and a host whose name begins with COM
Addresses ==
  UNION {[1..k -> AddrChars] : k \in 0..MaxAddr}
    \cup {DevPrefix \o <<"/", "t">>, ComPrefix \o <<"3">>,
          ComPrefix \o <<"h", ":", "2">>}

\* str.startswith
StartsWith(s, p) == Len(s) >= Len(p) /\ SubSeq(s, 1, Len(p)) = p

\* a split at the first separator only
SplitOnFirst(s, c) ==
  IF \A i \in 1..Len(s) : s[i] # c THEN <<s>>
  ELSE LET i == MinOf({k \in 1..Len(s) : s[k] = c})
       IN  <<SubSeq(s, 1, i - 1), SubSeq(s, i + 1, Len(s))>>

\* str.split(c): the pieces between the separators
RECURSIVE SplitOn(_, _)
SplitOn(s, c) ==
  IF \A i \in 1..Len(s) : s[i] # c THEN <<s>>
  ELSE LET i == MinOf({k \in 1..Len(s) : s[k] = c})
       IN  <<SubSeq(s, 1, i - 1)>> \o SplitOn(SubSeq(s, i + 1, Len(s)), c)

\* TcpClient.__init__: `self.address, self.port = address.split(':')`;
\* the unpacking raises ValueError unless there are two pieces
TcpClientInit(address) ==
  LET parts == SplitOn(address, ":")
  IN  IF Len(parts) = 2
        THEN [NotMade EXCEPT !.state = "made", !.kind = "tcp",
                             !.address = PyStr(parts[1]),
                             !.port = PyStr(parts[2])]
        ELSE [NotMade EXCEPT !.state = "raised", !.exc = "ValueError"]

\* SerialClient.__init__: the address is kept and the port opened, which
\* raises SerialException if there is no such port
SerialClientInit(address, there) ==
  IF there
    THEN [NotMade EXCEPT !.state = "made", !.kind = "serial",
                         !.address = PyStr(address)]
    ELSE [NotMade EXCEPT !.state = "raised", !.exc = "SerialException"]

\* an address string is handed to the constructor
CtorInit ==
  /\ addr \in Addresses
  /\ dev = NotMade
  /\ OneAtRest
  /\ PairFresh
  /\ MockRest
  /\ LegacyRest

\* IKADevice.__init__
Construct ==
  /\ dev.state = "new"
  /\ IF StartsWith(addr, DevPrefix) \/ StartsWith(addr, ComPrefix)
       THEN \E there \in BOOLEAN : dev' = SerialClientInit(addr, there)
       ELSE dev' = TcpClientInit(addr)
  /\ UNCHANGED <<addr, notCtor>>

\* asyncio.open_connection(self.address, self.port) can find the service
\* only if the port string is a number
Resolvable(port) == port.text # << >> /\ AllDigits(port.text)

\* TcpClient._handle_connection, first attempt: the connection is made, or
\* times out or is refused, or (conn "format") the address cannot be
\* resolved: an OSError, caught like a timeout
FirstConnect ==
  /\ dev.state = "made"
  /\ dev.kind = "tcp"
  /\ dev.conn = "none"
  /\ \E how \in {"ok", "timeout", "format"} :
       /\ ~Resolvable(dev.port) => how = "format"
       /\ (Resolvable(dev.port) /\ dev.address.text # << >>)
            => how # "format"
       /\ dev' = [dev EXCEPT !.conn = how]
  /\ UNCHANGED <<addr, notCtor>>

CtorNext ==
  \/ Construct
  \/ FirstConnect

CtorSpec == CtorInit /\ [][CtorNext]_vars

\* ------------------------------------------------------------------------
\* Numbers as the drivers and the mocks pass them: str(), float(), int()
\* ------------------------------------------------------------------------

RECURSIVE Pow10(_)
Pow10(k) == IF k = 0 THEN 1 ELSE 10 * Pow10(k - 1)

DigitChar(d) == CHOOSE c \in Digits : DigitVal(c) = d

\* the decimal digits of n >= 0, at least width of them
RECURSIVE NatStr(_, _)
NatStr(n, width) ==
  IF n < 10 /\ width <= 1 THEN <<DigitChar(n)>>
  ELSE Append(NatStr(n \div 10, width - 1), DigitChar(n % 10))

\* str(v) of a number v >= 0: 500 -> "500", 500.0 -> "500.0",
\* 22.5 -> "22.5"
StrOf(v) ==
  IF v.type = "int" THEN NatStr(v.num, 1)
  ELSE IF v.scale = 0 THEN NatStr(v.num, 1) \o <<".", "0">>
  ELSE NatStr(v.num \div Pow10(v.scale), 1) \o <<".">>
         \o NatStr(v.num % Pow10(v.scale), v.scale)

\* float(text): the mocks store what they parse
FloatOf(text) ==
  The({ IF f.ok THEN PyFloat(f.num, f.scale) ELSE PyNone :
        f \in {ParseFloat(text)} })

\* int(v) of a number v >= 0
IntOf(v) == PyInt(v.num \div Pow10(v.scale))

\* `int(x) if isinstance(x, float) else x`
IntIfFloat(v) == IF v.type = "float" THEN IntOf(v) ELSE v

\* a < b
Less(a, b) == a.num * Pow10(b.scale) < b.num * Pow10(a.scale)

\* a == b for numbers: 50 == 50.0
NumEq(a, b) ==
  /\ a.type \in {"int", "float"}
  /\ b.type \in {"int", "float"}
  /\ a.num * Pow10(b.scale) = b.num * Pow10(a.scale)

\* ------------------------------------------------------------------------
\* Mock devices (mock.py) under the drivers' set, control and get
\* ------------------------------------------------------------------------

OutSp(n) == <<"O", "U", "T", "_", "S", "P", "_">> \o n \o <<" ">>

Start(n) == <<"S", "T", "A", "R", "T", "_">> \o n

Stop(n) == <<"S", "T", "O", "P", "_">> \o n

OverheadStirrerProtocol ==
  [SET_SPEED |-> OutSp(<<"4">>), SET_TORQUE_LIMIT |-> OutSp(<<"5">>),
   SET_SPEED_LIMIT |-> OutSp(<<"6">>), START_MOTOR |-> Start(<<"4">>),
   STOP_MOTOR |-> Stop(<<"4">>)]

HotplateProtocol ==
  [SET_PROCESS_TEMP_SETPOINT |-> OutSp(<<"1">>),
   SET_SURFACE_TEMP_SETPOINT |-> OutSp(<<"2">>),
   SET_SPEED_SETPOINT |-> OutSp(<<"4">>),
   START_THE_HEATER |-> Start(<<"1">>), STOP_THE_HEATER |-> Stop(<<"1">>),
   START_THE_MOTOR |-> Start(<<"4">>), STOP_THE_MOTOR |-> Stop(<<"4">>)]

ShakerProtocol ==
  [SET_TEMP |-> OutSp(<<"2">>), SET_SPEED |-> OutSp(<<"4">>),
   START_HEATER |-> Start(<<"2">>), STOP_HEATER |-> Stop(<<"2">>),
   START_MOTOR |-> Start(<<"4">>), STOP_MOTOR |-> Stop(<<"4">>)]

VacuumProtocol ==
  [SET_PRESSURE |-> OutSp(<<"6", "6">>),
   START_MEASUREMENT |-> Start(<<"6", "6">>),
   STOP_MEASUREMENT |-> Stop(<<"6", "6">>)]

\* the mock objects as their constructors leave them: the setpoints (sp)
\* and the active flags (on) of the state dict; surface is the hotplate's
\* include_surface_control
MockOverheadStirrer ==
  [cls |-> "OverheadStirrer", surface |-> FALSE,
   sp |-> [torque_limit |-> PyFloat(60, 0), speed_limit |-> PyFloat(2000, 0),
           speed |-> PyFloat(0, 0)],
   on |-> [speed |-> FALSE]]

MockHotplate(surface) ==
  [cls |-> "Hotplate", surface |-> surface,
   sp |-> [process_temp |-> PyInt(50), surface_temp |-> PyInt(70),
           speed |-> PyInt(300)],
   on |-> [process_temp |-> FALSE, surface_temp |-> FALSE, speed |-> FALSE]]

MockShaker ==
  [cls |-> "Shaker", surface |-> FALSE,
   sp |-> [temp |-> PyInt(50), speed |-> PyInt(100)],
   on |-> [temp |-> FALSE, speed |-> TRUE]]

MockVacuum ==
  [cls |-> "Vacuum", surface |-> FALSE,
   sp |-> [pressure |-> PyFloat(0, 0)],
   on |-> [active |-> FALSE]]

\* what a driver method does: raise, or hand a string to self.command or
\* self.query
Raises(e) == [exit |-> "raise", exc |-> e, via |-> "", cmd |-> << >>]

Sends(via, cmd) == [exit |-> "send", exc |-> "", via |-> via, cmd |-> cmd]

\* a range test that lets every setpoint pass
OutsideNever(v, lo, hi) == FALSE

\* `setpoint < lo or setpoint > hi`
Outside(v, lo, hi) == Less(v, lo) \/ Less(hi, v)

\* setpoint * 1.333
Times1333(v) == PyFloat(v.num * 1333, v.scale + 3)

\* OverheadStirrer.set
StirrerSet(equipment, setpoint) ==
  IF equipment = "speed"
    THEN Sends("command", OverheadStirrerProtocol.SET_SPEED \o StrOf(setpoint))
  ELSE IF equipment = "speed_limit"
    THEN Sends("command",
               OverheadStirrerProtocol.SET_SPEED_LIMIT \o StrOf(setpoint))
  ELSE IF equipment = "torque_limit"
    THEN Sends("command",
               OverheadStirrerProtocol.SET_TORQUE_LIMIT \o StrOf(setpoint))
  ELSE Raises("ValueError")

\* Hotplate.set
HotplateSet(equipment, setpoint) ==
  IF equipment = "process"
    THEN Sends("command",
               HotplateProtocol.SET_PROCESS_TEMP_SETPOINT \o StrOf(setpoint))
  ELSE IF equipment = "surface"
    THEN Sends("command",
               HotplateProtocol.SET_SURFACE_TEMP_SETPOINT \o StrOf(setpoint))
  ELSE IF equipment = "shaker"
    THEN IF Outside(setpoint, PyInt(50), PyInt(1700))
           THEN Raises("ValueError")
           ELSE Sends("command", HotplateProtocol.SET_SPEED_SETPOINT
                                   \o StrOf(IntOf(setpoint)))
  ELSE Raises("ValueError")

\* Shaker.set
ShakerSet(equipment, setpoint) ==
  IF equipment = "heater"
    THEN IF Outside(setpoint, PyFloat(1, 0), PyInt(100))
           THEN Raises("ValueError")
           ELSE Sends("command", ShakerProtocol.SET_TEMP \o StrOf(setpoint))
  ELSE IF equipment = "shaker"
    THEN IF Outside(setpoint, PyInt(300), PyInt(3000))
           THEN Raises("ValueError")
           ELSE Sends("command", ShakerProtocol.SET_SPEED \o StrOf(setpoint))
  ELSE Raises("ValueError")

\* Vacuum.set
VacuumSet(setpoint) ==
  Sends("query", VacuumProtocol.SET_PRESSURE
                   \o StrOf(IntOf(Times1333(setpoint))))

\* OverheadStirrer.control
StirrerControl(on) ==
  Sends("query", IF on THEN OverheadStirrerProtocol.START_MOTOR
                       ELSE OverheadStirrerProtocol.STOP_MOTOR)

\* a control that starts the equipment whatever `on` is
HotplateControlStarts(equipment, on) ==
  IF equipment = "heater"
    THEN Sends("command", HotplateProtocol.START_THE_HEATER)
  ELSE IF equipment = "motor"
    THEN Sends("command", HotplateProtocol.START_THE_MOTOR)
  ELSE Raises("ValueError")

\* Hotplate.control
HotplateControl(equipment, on) ==
  IF equipment = "heater"
    THEN Sends("command", IF on THEN HotplateProtocol.START_THE_HEATER
                                ELSE HotplateProtocol.STOP_THE_HEATER)
  ELSE IF equipment = "motor"
    THEN Sends("command", IF on THEN HotplateProtocol.START_THE_MOTOR
                                ELSE HotplateProtocol.STOP_THE_MOTOR)
  ELSE Raises("ValueError")

\* Shaker.control
ShakerControl(equipment, on) ==
  IF equipment = "heater"
    THEN Sends("command", IF on THEN ShakerProtocol.START_HEATER
                                ELSE ShakerProtocol.STOP_HEATER)
  ELSE IF equipment = "shaker"
    THEN Sends("command", IF on THEN ShakerProtocol.START_MOTOR
                                ELSE ShakerProtocol.STOP_MOTOR)
  ELSE Raises("ValueError")

\* Vacuum.control
VacuumControl(on) ==
  Sends("query", IF on THEN VacuumProtocol.START_MEASUREMENT
                       ELSE VacuumProtocol.STOP_MEASUREMENT)

\* the mock after a call that returned, or the exception of one that did
\* not
Kept(m) == [exit |-> "return", exc |-> "", mock |-> m]

Failed(m, e) == [exit |-> "raise", exc |-> e, mock |-> m]

\* state[key]['setpoint'] = float(value)
StoreFloat(m, key, value) ==
  The({ IF f.type = "float" THEN Kept([m EXCEPT !.sp[key] = f])
        ELSE Failed(m, "ValueError")
      : f \in {FloatOf(value)} })

\* `command, value = command.split(" ")`, then what the mock does with the
\* two: store(command, value)
SplitTwo(m, command, store(_, _)) ==
  The({ IF Len(parts) = 2 THEN store(parts[1], parts[2])
        ELSE Failed(m, "ValueError")
      : parts \in {SplitOn(command, " ")} })

\* mock OverheadStirrer.query and .command
MockStirrerCall(m, via, command) ==
  IF via = "query"
    THEN IF command = OverheadStirrerProtocol.START_MOTOR
           THEN Kept([m EXCEPT !.on.speed = TRUE])
         ELSE IF command = OverheadStirrerProtocol.STOP_MOTOR
           THEN Kept([m EXCEPT !.on.speed = FALSE])
         ELSE Kept(m)
    ELSE LET store(c, value) ==
               IF c = Strip(OverheadStirrerProtocol.SET_SPEED)
                 THEN StoreFloat(m, "speed", value)
               ELSE IF c = Strip(OverheadStirrerProtocol.SET_SPEED_LIMIT)
                 THEN StoreFloat(m, "speed_limit", value)
               ELSE IF c = Strip(OverheadStirrerProtocol.SET_TORQUE_LIMIT)
                 THEN StoreFloat(m, "torque_limit", value)
               ELSE Kept(m)
         IN  SplitTwo(m, command, store)

\* mock Hotplate.command
MockHotplateCall(m, via, command) ==
  LET store(c, value) ==
        IF c = Strip(HotplateProtocol.SET_PROCESS_TEMP_SETPOINT)
          THEN StoreFloat(m, "process_temp", value)
        ELSE IF c = Strip(HotplateProtocol.SET_SURFACE_TEMP_SETPOINT)
          THEN StoreFloat(m, "surface_temp", value)
        ELSE Kept(m)
  IN  IF command = HotplateProtocol.START_THE_MOTOR
        THEN Kept([m EXCEPT !.on.speed = TRUE])
      ELSE IF command = HotplateProtocol.STOP_THE_MOTOR
        THEN Kept([m EXCEPT !.on.speed = FALSE])
      ELSE IF command = HotplateProtocol.START_THE_HEATER
        THEN Kept([m EXCEPT !.on.process_temp = TRUE])
      ELSE IF command = HotplateProtocol.STOP_THE_HEATER
        THEN Kept([m EXCEPT !.on.process_temp = FALSE])
      ELSE SplitTwo(m, command, store)

\* mock Shaker.command
MockShakerCall(m, via, command) ==
  LET store(c, value) ==
        IF c = Strip(ShakerProtocol.SET_TEMP)
          THEN StoreFloat(m, "temp", value)
        ELSE IF c = Strip(ShakerProtocol.SET_SPEED)
          THEN StoreFloat(m, "speed", value)
        ELSE Kept(m)
  IN  IF command = ShakerProtocol.START_MOTOR
        THEN Kept([m EXCEPT !.on.speed = TRUE])
      ELSE IF command = ShakerProtocol.STOP_MOTOR
        THEN Kept([m EXCEPT !.on.speed = FALSE])
      ELSE IF command = ShakerProtocol.START_HEATER
        THEN Kept([m EXCEPT !.on.temp = TRUE])
      ELSE IF command = ShakerProtocol.STOP_HEATER
        THEN Kept([m EXCEPT !.on.temp = FALSE])
      ELSE SplitTwo(m, command, store)

\* mock Vacuum.query
MockVacuumCall(m, via, command) ==
  LET store(c, value) ==
        IF c = Strip(VacuumProtocol.SET_PRESSURE)
          THEN StoreFloat(m, "pressure", value)
        ELSE Kept(m)
  IN  IF command = VacuumProtocol.START_MEASUREMENT
        THEN Kept([m EXCEPT !.on.active = TRUE])
      ELSE IF command = VacuumProtocol.STOP_MEASUREMENT
        THEN Kept([m EXCEPT !.on.active = FALSE])
      ELSE SplitTwo(m, command, store)

\* Vacuum.get_pressure_setpoint: round(float(raw_sp) / 1.333, 2), raw_sp
\* being str() of the stored setpoint
PressureSetpoint(stored) ==
  LET x == FloatOf(StrOf(stored))
      d == 2 * 1333 * Pow10(x.scale)
      q == (2 * x.num * 100000 + 1333 * Pow10(x.scale)) \div d
      r == Normalise(q, 2)
  IN  PyFloat(r.num, r.scale)

\* mock Vacuum.query(READ_VAC_STATUS)
VacStatus(active) ==
  IF active THEN <<"1", "2", "3", "4", "5">> ELSE <<"7", "5">>

\* Vacuum.get_status
VacRunning(raw) ==
  ~(\/ raw = <<"7", "5">>
    \/ raw = <<"7", "9">>
    \/ raw = <<"2", "0", "3">>
    \/ raw = <<"2", "0", "7">>
    \/ First2(raw) = <<"3", "2">>)

\* the names set() and control() take, per class (the stirrer's and the
\* vacuum's control and the vacuum's set take none: one name stands for it)
SetKinds(cls) ==
  IF cls = "OverheadStirrer" THEN {"speed", "speed_limit", "torque_limit"}
  ELSE IF cls = "Hotplate" THEN {"process", "surface", "shaker"}
  ELSE IF cls = "Shaker" THEN {"heater", "shaker"}
  ELSE {"pressure"}

Equipment(cls) ==
  IF cls = "OverheadStirrer" THEN {"motor"}
  ELSE IF cls = "Hotplate" THEN {"heater", "motor"}
  ELSE IF cls = "Shaker" THEN {"heater", "shaker"}
  ELSE {"pump"}

\* what get() and get_info() report: for each name set() takes the
\* setpoint reported (None if the reply has none), for each name control()
\* takes the active flag reported
Report(m) ==
  IF m.cls = "OverheadStirrer"
    THEN [sp |-> [speed |-> m.sp.speed, speed_limit |-> m.sp.speed_limit,
                  torque_limit |-> m.sp.torque_limit],
          on |-> [motor |-> m.on.speed]]
  ELSE IF m.cls = "Hotplate"
    THEN [sp |-> [process |-> m.sp.process_temp,
                  surface |-> IF m.surface THEN m.sp.surface_temp ELSE PyNone,
                  shaker |-> IntIfFloat(m.sp.speed)],
          on |-> [heater |-> m.on.process_temp, motor |-> m.on.speed]]
  ELSE IF m.cls = "Shaker"
    THEN [sp |-> [heater |-> m.sp.temp, shaker |-> IntIfFloat(m.sp.speed)],
          on |-> [heater |-> m.on.temp, shaker |-> m.on.speed]]
  ELSE [sp |-> [pressure |-> PressureSetpoint(m.sp.pressure)],
        on |-> [pump |-> VacRunning(VacStatus(m.on.active))]]

\* the setpoints tried: on the shaker the values at and next to the limits
\* of both ranges, on the others five of them
SetValues(cls) ==
  IF cls = "Shaker"
    THEN {PyInt(1), PyInt(100), PyInt(299), PyInt(300), PyInt(3000),
          PyInt(3001), PyFloat(5, 1), PyFloat(1005, 1), PyFloat(3005, 1)}
    ELSE {PyInt(1), PyInt(100), PyInt(300), PyInt(3000), PyFloat(3005, 1)}

\* a name that no set() and no control() knows
Bogus == "bogus"

\* a mock device has been constructed
MockInit ==
  /\ mock \in {MockOverheadStirrer, MockHotplate(FALSE), MockHotplate(TRUE),
               MockShaker, MockVacuum}
  /\ seen = NoSeen
  /\ OneAtRest
  /\ PairFresh
  /\ CtorRest
  /\ LegacyRest

\* the driver's method, then the mock's query or command with what it sent
Through(m, d) ==
  IF d.exit = "raise" THEN Failed(m, d.exc)
  ELSE IF m.cls = "OverheadStirrer" THEN MockStirrerCall(m, d.via, d.cmd)
  ELSE IF m.cls = "Hotplate" THEN MockHotplateCall(m, d.via, d.cmd)
  ELSE IF m.cls = "Shaker" THEN MockShakerCall(m, d.via, d.cmd)
  ELSE MockVacuumCall(m, d.via, d.cmd)

\* device.set(equipment, setpoint)
MockSet ==
  \E equipment \in SetKinds(mock.cls) \cup {Bogus}, setpoint \in SetValues(mock.cls) :
    \E d \in {IF mock.cls = "OverheadStirrer"
                THEN StirrerSet(equipment, setpoint)
              ELSE IF mock.cls = "Hotplate"
                THEN HotplateSet(equipment, setpoint)
              ELSE IF mock.cls = "Shaker" THEN ShakerSet(equipment, setpoint)
              ELSE IF equipment = "pressure" THEN VacuumSet(setpoint)
              ELSE Raises("TypeError")} :
      \E r \in {Through(mock, d)} :
        /\ mock' = r.mock
        /\ seen' = [NoSeen EXCEPT !.op = "set", !.kind = equipment,
                                  !.value = setpoint, !.exit = r.exit,
                                  !.exc = r.exc, !.sent = d.cmd]
        /\ UNCHANGED notMock

\* device.control(equipment, on)
MockControl ==
  \E equipment \in Equipment(mock.cls) \cup {Bogus}, on \in BOOLEAN :
    \E d \in {IF mock.cls = "OverheadStirrer"
                THEN IF equipment = "motor" THEN StirrerControl(on)
                     ELSE Raises("TypeError")
              ELSE IF mock.cls = "Hotplate"
                THEN HotplateControl(equipment, on)
              ELSE IF mock.cls = "Shaker" THEN ShakerControl(equipment, on)
              ELSE IF equipment = "pump" THEN VacuumControl(on)
              ELSE Raises("TypeError")} :
      \E r \in {Through(mock, d)} :
        /\ mock' = r.mock
        /\ seen' = [NoSeen EXCEPT !.op = "control", !.kind = equipment,
                                  !.on = on, !.exit = r.exit, !.exc = r.exc,
                                  !.sent = d.cmd]
        /\ UNCHANGED notMock

\* device.get() and device.get_info()
MockGet ==
  /\ seen' = [NoSeen EXCEPT !.op = "get", !.exit = "return",
                            !.report = Report(mock)]
  /\ UNCHANGED <<mock, notMock>>

MockNext ==
  \/ MockSet
  \/ MockControl
  \/ MockGet

MockSpec == MockInit /\ [][MockNext]_vars

\* ------------------------------------------------------------------------
\* Legacy transport (driver_pat.py): request() runs _write_and_read to its
\* end on the event loop, one request at a time
\* ------------------------------------------------------------------------

\* the request ends: `async with self.lock` has released the lock
LegacyEnd(tr, conn, read, exit, exc, res) ==
  /\ transport' = [tr EXCEPT !.locked = FALSE]
  /\ request' = [pc |-> "idle", conn |-> conn,
                 first |-> transport.reconnecting = "unset", read |-> read,
                 exit |-> exit, exc |-> exc, res |-> res,
                 to0 |-> transport.timeouts]
  /\ UNCHANGED notLegacy

\* the except branch of Transport._handle_communication: count; at the
\* ceiling the log message reads self.address, which Transport does not
\* have, and AttributeError leaves the handler; else the result is None
LegacyFailure(tr, conn, read) ==
  /\ tr.timeouts < TimeoutsCap
  /\ LET tr1 == [tr EXCEPT !.timeouts = @ + 1]
     IN  IF tr1.timeouts = max_timeouts
           THEN LegacyEnd(tr1, conn, read, "raise", "AttributeError", "")
           ELSE LegacyEnd(tr1, conn, read, "return", "", "none")

\* _handle_communication up to its suspension: with no connection dict the
\* subscript raises TypeError, which is counted; else the command is
\* written and the line awaited
LegacyCommunicate(tr, conn) ==
  IF tr.connection = "none"
    THEN LegacyFailure(tr, conn, "typeerror")
    ELSE /\ transport' = tr
         /\ request' = [NoRequest EXCEPT !.pc = "read", !.conn = conn]
         /\ UNCHANGED notLegacy

\* Transport.request: the lock is taken and _handle_connection runs; a
\* connected transport assigns reconnecting and goes on to communicate,
\* else the connect attempt is awaited
LegacyRequest ==
  /\ request.pc = "idle"
  /\ LET tr == [transport EXCEPT !.locked = TRUE]
     IN  IF tr.connected
           THEN LegacyCommunicate([tr EXCEPT !.reconnecting = "false"],
                                  "none")
           ELSE /\ transport' = tr
                /\ request' = [NoRequest EXCEPT !.pc = "conn"]
                /\ UNCHANGED notLegacy

\* _connect returns: the streams are stored and the flags set
LegacyConnectOk ==
  /\ request.pc = "conn"
  /\ LegacyCommunicate([transport EXCEPT !.connection = "stream",
                                         !.writerOpen = TRUE,
                                         !.connected = TRUE,
                                         !.reconnecting = "false"], "ok")

\* the connect attempt times out or is refused: the except branch reads
\* self.reconnecting, which only an earlier success has assigned
LegacyConnectFail ==
  /\ request.pc = "conn"
  /\ IF transport.reconnecting = "unset"
       THEN LegacyEnd(transport, "fail", "none", "raise", "AttributeError",
                      "")
       ELSE LegacyCommunicate([transport EXCEPT !.reconnecting = "true"],
                              "fail")

\* readuntil returns a line: the counter is reset
LegacyReadLine ==
  /\ request.pc = "read"
  /\ transport.connected
  /\ LegacyEnd([transport EXCEPT !.timeouts = 0], request.conn, "line",
               "return", "", "line")

\* wait_for gives up on the line
LegacyReadTimeout ==
  /\ request.pc = "read"
  /\ LegacyFailure(transport, request.conn, "timeout")

\* the stream has ended: IncompleteReadError is not in the except tuple
LegacyReadEof ==
  /\ request.pc = "read"
  /\ LegacyEnd(transport, request.conn, "eof", "raise",
               "IncompleteReadError", "")

\* Transport.disconnect
LegacyDisconnect ==
  /\ request.pc = "idle"
  /\ transport' = [transport EXCEPT
                     !.writerOpen = IF transport.connected THEN FALSE ELSE @,
                     !.connected = FALSE]
  /\ request' = NoRequest
  /\ UNCHANGED notLegacy

LegacyInit == LegacyRest /\ OneAtRest /\ PairFresh /\ CtorRest /\ MockRest

LegacyNext ==
  \/ LegacyRequest
  \/ LegacyConnectOk
  \/ LegacyConnectFail
  \/ LegacyReadLine
  \/ LegacyReadTimeout
  \/ LegacyReadEof
  \/ LegacyDisconnect

LegacySpec == LegacyInit /\ [][LegacyNext]_vars

\* ------------------------------------------------------------------------
\* The decoder on its own: a query has written its command and the
\* device's line is there to be read
\* ------------------------------------------------------------------------

\* commands of the device classes (driver.py protocol classes)
READ_DEVICE_NAME == S_IN_NAME
READ_SOFTWARE_VERSION == S_IN_VERSION
READ_DEVICE_TYPE == <<"I", "N", "_", "T", "Y", "P", "E">>
READ_PT1000 == <<"I", "N", "_", "P", "V", "_", "3">>
READ_MOTOR_STATUS == S_STATUS_4
READ_PROCESS_HEATER_STATUS == <<"S", "T", "A", "T", "U", "S", "_", "1">>
READ_SURFACE_HEATER_STATUS == S_STATUS_2
READ_SET_PRESSURE == <<"I", "N", "_", "S", "P", "_", "6", "6">>

DecCommands ==
  { READ_DEVICE_NAME, READ_SOFTWARE_VERSION, READ_DEVICE_TYPE, READ_PT1000,
    READ_ACTUAL_SPEED, READ_MOTOR_STATUS, READ_PROCESS_HEATER_STATUS,
    READ_SURFACE_HEATER_STATUS, READ_SET_PRESSURE }

\* every response ends with blank CR LF
Eol == <<" ", "\r", "\n">>

\* what the device sends before the end-of-line marker
TxtName == <<"M", "Y", "D", "E", "V", "I", "C", "E">>
TxtTemp4 == <<"2", "2", ".", "5", "0", " ", "4">>
TxtTemp3 == <<"2", "2", ".", "5", "0", " ", "3">>
TxtSpeed4 == <<"1", "5", "0", "0", " ", "4">>
TxtNeg3 == <<"-", "5", ".", "0", " ", "3">>
TxtOn4 == <<"1", " ", "4">>
TxtOff4 == <<"0", " ", "4">>
TxtActive1 == <<"1", "1", " ", "1">>
TxtInactive1 == <<"1", "2", " ", "1">>
TxtActive2 == <<"1", "1", " ", "2">>
TxtEcho66 == <<"I", "N", "_", "S", "P", "_", "6", "6", " ", "6", "6">>
TxtEcho12 == <<"I", "N", "_", "S", "P", "_", "6", "6", " ", "1", "2">>
TxtSentinel3 == <<"I", "N", "_", "P", "V", "_", "4", " ", "3">>
TxtSentinel == <<"I", "N", "_", "P", "V", "_", "4">>
TxtErr3 == <<"E", "R", "R", " ", "3">>
TxtEmpty == << >>

DecTexts ==
  { TxtName, TxtTemp4, TxtTemp3, TxtSpeed4,
    TxtNeg3, TxtOn4, TxtOff4, TxtActive1,
    TxtInactive1, TxtActive2, TxtEcho66, TxtEcho12,
    TxtSentinel3, TxtSentinel, TxtErr3, TxtEmpty }

\* a query of task 1 holds the lock on an open connection, has written its
\* command, and the device's line has arrived
DecInit ==
  /\ Rest
  /\ kind \in {"tcp", "serial"}
  /\ open = TRUE
  /\ timeouts \in 0..1
  /\ reconnecting = FALSE
  /\ connection = IF kind = "tcp" THEN "stream" ELSE "empty"
  /\ streamOpen = TRUE
  /\ peerClosed = FALSE
  /\ \E txt \in DecTexts :
       rxbuf = <<[raw |-> txt \o Eol, by |-> 1, why |-> "live"]>>
  /\ pending = << >>
  /\ lock = LockTake(LockOnFirstUse(NoLock))
  /\ pc = [t \in Tasks |->
            IF t = 1 THEN IF kind = "tcp" THEN "read" ELSE "sleep"
            ELSE "idle"]
  /\ \E c \in DecCommands :
       call = [t \in Tasks |->
                 IF t = 1 THEN [op |-> "query", cmd |-> c] ELSE NoCall]
  /\ last = NoLast

\* the line is read and decoded, and a mismatch is drained
DecNext ==
  \/ \E t \in Tasks : TcpReadLine(t)
  \/ \E t \in Tasks : SerialReadLine(t)
  \/ \E t \in Tasks : ClearJunk(t)
  \/ \E t \in Tasks : ClearTimeout(t)

DecSpec == DecInit /\ [][DecNext]_vars

\* ------------------------------------------------------------------------
\* Properties
\* ------------------------------------------------------------------------

\* a task is inside `async with self.lock`
InCall(t) == pc[t] \in {"conn", "read", "sleep", "clear"}

\* the call recorded in last ran inside the lock until the last step
EndedInside == last.task # 0 /\ last.exit # "cancel_wait"

\* C1: at most one request is in flight per device instance.  No two tasks
\* are inside the locked section at once, and no call writes, reads or
\* ends inside it while another task is inside it: request N+1 is not
\* written before request N has completed, timed out or failed.
C1_OneInFlight ==
  /\ \A t, u \in Tasks : (InCall(t) /\ InCall(u)) => t = u
  /\ EndedInside => \A u \in Tasks \ {last.task} : ~InCall(u)

\* one query waits for its line while another caller waits for the lock
C1_Witness ==
  \E t, u \in Tasks : pc[t] \in {"read", "sleep"} /\ pc[u] = "wait"

\* C2: the lock is released on every exit path.  It is held exactly while
\* some task is inside the locked section (so not after a return, a raised
\* error or a cancellation), the queue holds exactly the tasks that wait,
\* and whenever it is free with tasks waiting the first of them has been
\* woken, so the next call gets it.
C2_LockReleased ==
  /\ lock.locked <=> \E t \in Tasks : InCall(t)
  /\ \A t \in Tasks :
       pc[t] = "wait" <=> \E i \in 1..Len(lock.waiters) : lock.waiters[i] = t
  /\ lock.woken \subseteq {t \in Tasks : pc[t] = "wait"}
  /\ (~lock.locked /\ lock.waiters # << >>) => Head(lock.waiters) \in lock.woken

\* a query was cancelled while it held the lock, and the release woke the
\* caller that was waiting
C2_Witness ==
  /\ last.op = "query"
  /\ last.exit = "cancel_hold"
  /\ last.wrote
  /\ ~lock.locked
  /\ lock.woken # {}


\* the call recorded in last is a query that gave its caller a value
ReturnedValue ==
  /\ last.op = "query"
  /\ last.exit = "return"
  /\ last.res.kind \in {"str", "bool", "float"}

\* C3: the response to a query that was cancelled between its write and
\* its read is never returned as the result of a later query.
C3_NoMisattribution == ~(ReturnedValue /\ last.why = "cancelled")

\* a task starts on the locked section in this step: it gets the lock,
\* from the queue or at once, and runs on or ends within the step
Enters(t) ==
  \/ pc[t] \in {"idle", "wait"} /\ InCall(t)'
  \/ /\ pc[t] \in {"idle", "wait"}
     /\ last'.task = t
     /\ last'.exit \in {"return", "raise"}

\* t stands before u in the lock's queue
Before(t, u) ==
  \E i, j \in 1..Len(lock.waiters) :
    i < j /\ lock.waiters[i] = t /\ lock.waiters[j] = u

\* C4: callers blocked on the lock are served in FIFO order.  A task that
\* starts on the locked section while another task waits was itself
\* waiting, and stood before every other waiting task in the queue: no
\* caller that came later goes first.
C4_Fifo ==
  [][\A t \in Tasks : Enters(t) =>
       \A u \in Tasks \ {t} :
         pc[u] = "wait" => (pc[t] = "wait" /\ Before(t, u))]_vars

\* the lock is free but promised to the woken first waiter, and a caller
\* that came after it has queued behind it
C4_Witness ==
  /\ ~lock.locked
  /\ Len(lock.waiters) >= 2
  /\ Head(lock.waiters) \in lock.woken

\* C5: for every client kind, a query whose read times out or hits an OS
\* error returns None without raising and adds exactly one to the failure
\* counter.
C5_ReadFailureCounted ==
  (last.op = "query" /\ last.read \in {"timeout", "oserror"}) =>
    /\ last.exit = "return"
    /\ last.res = RNone
    /\ last.to1 = last.to0 + 1


\* the call recorded in last ran the body of the locked section to its end
RanToEnd == last.task # 0 /\ last.exit \in {"return", "raise"}

\* C6: on a TCP client the failure that brings the counter to the ceiling
\* closes the connection within the same query, and after that nothing is
\* written before a fresh connect attempt: a task that has written holds
\* an open connection, and a call that found the connection closed ends
\* only after a connect attempt.
C6_CeilingCloses ==
  kind = "tcp" =>
    /\ (last.task # 0 /\ last.to0 = max_timeouts - 1
          /\ last.to1 = max_timeouts) => (~last.openAfter /\ ~open)
    /\ \A t \in Tasks : pc[t] \in {"read", "clear"} => open
    /\ (RanToEnd /\ ~last.wasOpen) => last.conn # "none"

\* the counter has passed the ceiling, and a later query has connected
\* again and written its command
C6_Witness ==
  /\ kind = "tcp"
  /\ timeouts >= max_timeouts
  /\ \E t \in Tasks : pc[t] = "read" /\ call[t].op = "query"

\* C7: after every query that read a response line the failure counter is
\* 0, whether the decoder gives a value, finds a mismatch (the counter is 0
\* during the drain too) or raises.
C7_ResetOnRead ==
  /\ (last.op = "query" /\ last.read = "line") => last.to1 = 0
  /\ \A t \in Tasks : pc[t] = "clear" => timeouts = 0

\* a query read a line after earlier failures and the decoder raised
C7_Witness ==
  /\ last.op = "query"
  /\ last.read = "line"
  /\ last.exit = "raise"
  /\ last.to0 > 0

\* C8: a query whose connect attempt fails returns None without raising
\* and without writing, the connection stays closed, and there is no
\* backoff: a query that holds the lock with the connection closed is in
\* its connect attempt, and none ends without one.
C8_ConnectFailure ==
  /\ (last.op = "query" /\ last.conn = "fail") =>
       /\ last.exit = "return"
       /\ last.res = RNone
       /\ ~last.wrote
       /\ ~last.openAfter
  /\ \A t \in Tasks :
       (kind = "tcp" /\ InCall(t) /\ ~open) => pc[t] = "conn"
  /\ (kind = "tcp" /\ last.op = "query" /\ RanToEnd /\ ~last.wasOpen) =>
       last.conn = "fail"

\* a query's connect attempt failed although the attempt before it had
\* failed too
C8_Witness ==
  /\ last.op = "query"
  /\ last.conn = "fail"
  /\ last.wasRec
  /\ last.exit = "return"

\* C9: command returns without raising when its connect attempt fails,
\* also on an instance that has never been connected.
C9_CommandAbsorbs ==
  (last.op = "command" /\ last.conn = "fail") => last.exit = "return"

\* the call recorded in last is a query that has returned
QueryDone == last.op = "query" /\ last.exit = "return"

\* a step in which a query returns to its caller
QueryReturns == QueryDone'

\* the connection is open although the other end has closed it
DeadOpen == kind = "tcp" /\ open /\ peerClosed

\* C10: reconnection is automatic.  In a run in which queries return again
\* and again, an open TCP connection that the other end has closed does
\* not stay open for ever: after finitely many queries the instance closes
\* it (and the next query connects again).
C10_Reconnects == ([]<><<QueryReturns>>_vars) => ([]<>~DeadOpen)

\* C11: a device used in a scoped acquisition is disconnected on exit.
\* Once the scope has been left, normally or after a call in it raised, the
\* open flag is false and the stream (writer or serial port) is released.
C11_ScopeCloses ==
  (\A t \in Tasks : pc[t] = "left") => (~open /\ ~streamOpen)

\* C12: close() is idempotent and disconnects.  Called in any state with
\* no call running it returns without raising and leaves the instance
\* Disconnected: the open flag is false and the stream is released (so a
\* second close() finds nothing to release and changes nothing).
C12_CloseIdempotent ==
  last.op = "close" => (last.exit = "return" /\ ~open /\ ~streamOpen)

\* the call recorded in last is a query that read a response line
QueryRead == last.op = "query" /\ last.read = "line"

\* the name, version and type queries of the device classes
IdentityCommands ==
  {READ_DEVICE_NAME, READ_SOFTWARE_VERSION, READ_DEVICE_TYPE}

\* the responses explored that contain the cross-wired sentinel
SentinelTexts == {TxtSentinel3, TxtSentinel}

\* the query raised the configuration-fault error
RaisedConfigFault ==
  last.exit = "raise" /\ last.res = RRaise("ConnectionError")

\* C13 as stated: for every command, a response that contains the
\* sentinel makes query raise the configuration-fault error.
C13_SentinelRaises ==
  (QueryRead /\ last.resp \in SentinelTexts) => RaisedConfigFault

\* C13 as the code has it: for every command that is not of the identity
\* family, a response that contains the sentinel makes query raise the
\* configuration-fault error (an identity query returns the line).
C13_SentinelRaisesUnlessIdentity ==
  (QueryRead /\ last.resp \in SentinelTexts
     /\ last.cmd \notin IdentityCommands) => RaisedConfigFault

\* a heater status query got a line with the sentinel and raised
C13_Witness ==
  /\ QueryRead
  /\ last.cmd = READ_PROCESS_HEATER_STATUS
  /\ last.resp = TxtSentinel3
  /\ RaisedConfigFault

\* C14: for every identity command and every response line read, query
\* returns the trimmed line itself as a string; the sentinel, echo,
\* last-character and numeric rules are not applied to it.
C14_IdentityVerbatim ==
  (QueryRead /\ last.cmd \in IdentityCommands) =>
    /\ last.exit = "return"
    /\ last.res.kind = "str"
    /\ last.res.text = last.resp
    /\ last.resp \in DecTexts

\* a name query got the line with the sentinel back as a string
C14_Witness ==
  /\ QueryRead
  /\ last.cmd = READ_DEVICE_NAME
  /\ last.resp = TxtSentinel3
  /\ last.res.kind = "str"
  /\ last.res.text = TxtSentinel3

\* the query of task t, which found the last characters of command and
\* response different and went on to drain the stream, ends in this step
\* without having been cancelled
EndsAfterMismatch(t) ==
  /\ pc[t] = "clear"
  /\ pc'[t] = "idle"
  /\ last'.task = t
  /\ last'.exit # "cancel_hold"

\* C15: if the last character of the response differs from the last
\* character of the command, query returns none and does not raise (as
\* long as the device stays connected).
C15_MismatchNone ==
  [][\A t \in Tasks :
       (EndsAfterMismatch(t) /\ ~peerClosed) =>
         (last'.exit = "return" /\ last'.res = RNone)]_vars

\* the numeric readout queries explored
NumericCommands == {READ_PT1000, READ_ACTUAL_SPEED}

\* values as the device writes them, and the numbers they stand for
\* (num / 10^scale)
NumericValues ==
  { [text |-> <<"2", "2", ".", "5", "0">>, num |-> 225, scale |-> 1],
    [text |-> <<"1", "5", "0", "0">>, num |-> 1500, scale |-> 0],
    [text |-> <<"-", "5", ".", "0">>, num |-> 0 - 5, scale |-> 0] }

\* the last character of the 2-character suffix
SuffixChars == {"3", "4"}

\* resp is the value v followed by a 2-character suffix
IsValueSuffix(resp, v) ==
  \E d \in SuffixChars : resp = v.text \o <<" ", d>>

WellFormed(resp) == \E v \in NumericValues : IsValueSuffix(resp, v)

ValueOf(resp) == CHOOSE v \in NumericValues : IsValueSuffix(resp, v)

\* the response string that the next read gives
ReadResponse == Strip(Head(rxbuf).raw)

\* the query of task t reads a response line in this step
LineRead(t) ==
  /\ pc[t] \in {"read", "sleep"}
  /\ rxbuf # << >>
  /\ call[t].op = "query"
  /\ pc'[t] = "clear" \/ (last'.task = t /\ last'.read = "line")

\* C16 as stated: for every numeric readout command and every response
\* made of a value and a 2-character suffix, query returns the number the
\* value stands for ('22.50 4' to 'IN_PV_3' gives 22.5).
C16_NumericParsed ==
  [][\A t \in Tasks :
       (LineRead(t) /\ call[t].cmd \in NumericCommands
          /\ WellFormed(ReadResponse)) =>
         /\ last'.exit = "return"
         /\ last'.res = RFloat(ValueOf(ReadResponse))]_vars

\* C16 as the code has it: for every numeric readout command and every
\* response made of a value and a 2-character suffix whose last character
\* is the last character of the command, query returns the number the
\* value stands for ('22.50 3' to 'IN_PV_3' gives 22.5).
C16_NumericParsedOnEcho ==
  [][\A t \in Tasks :
       (LineRead(t) /\ call[t].cmd \in NumericCommands
          /\ WellFormed(ReadResponse)
          /\ LastChar(ReadResponse) = LastChar(call[t].cmd)) =>
         /\ last'.exit = "return"
         /\ last'.res = RFloat(ValueOf(ReadResponse))]_vars

\* the query 'IN_PV_3' read '22.50 3' and returned 22.5
C16_Witness ==
  /\ QueryRead
  /\ last.cmd = READ_PT1000
  /\ last.resp = TxtTemp3
  /\ last.exit = "return"
  /\ last.res = RFloat([num |-> 225, scale |-> 1])

\* responses that echo the command 'IN_SP_66' before a payload, and the
\* payload
EchoCases ==
  { [resp |-> TxtEcho66, payload |-> <<"6", "6">>],
    [resp |-> TxtEcho12, payload |-> <<"1", "2">>] }

\* C17: when the response echoes the full command before the value, query
\* returns the response without the command and the blanks around the
\* payload, for every payload, also one made of characters of the command
\* ('IN_SP_66 66' to 'IN_SP_66' gives '66').
C17_EchoPayload ==
  \A e \in EchoCases :
    (QueryRead /\ last.cmd = READ_SET_PRESSURE /\ last.resp = e.resp) =>
      (last.exit = "return" /\ last.res = RStr(e.payload))

\* the response to LineText: text where a number is expected, with the
\* last character of the speed query
TxtErr4 == <<"E", "R", "R", " ", "4">>

\* C18: when a numeric readout cannot be parsed, the parse error leaves
\* query (it is not turned into none), the lock is released, the
\* connection stays open and the failure counter is not incremented.
C18_ParseErrorPropagates ==
  (QueryRead /\ last.cmd = READ_ACTUAL_SPEED /\ last.resp = TxtErr4) =>
    /\ last.exit = "raise"
    /\ last.res = RRaise("ValueError")
    /\ pc[last.task] = "idle"
    /\ ~lock.locked
    /\ last.wasOpen /\ last.openAfter /\ open /\ streamOpen
    /\ last.to1 <= last.to0

\* a speed query read 'ERR 4' and raised, and the release of the lock
\* woke a caller that was waiting
C18_Witness ==
  /\ QueryRead
  /\ last.resp = TxtErr4
  /\ last.exit = "raise"
  /\ lock.woken # {}

\* the response in last went past the sentinel and echo rules and passed
\* the last-character check
PassedLastChar ==
  /\ last.resp # << >>
  /\ last.cmd # << >>
  /\ last.resp \notin SentinelTexts
  /\ ~(last.cmd = READ_SET_PRESSURE /\ last.resp \in {e.resp : e \in EchoCases})
  /\ last.resp[Len(last.resp)] = last.cmd[Len(last.cmd)]

\* C19: a motor/shaker status query (STATUS_4) whose response passes the
\* last-character check returns a boolean that is true exactly when the
\* first character of the response is '1'.
C19_MotorFlag ==
  (QueryRead /\ last.cmd = READ_MOTOR_STATUS /\ PassedLastChar) =>
    /\ last.exit = "return"
    /\ last.res.kind = "bool"
    /\ last.res.flag <=> last.resp[1] = "1"

\* the motor status query read '0 4' and returned false
C19_Witness ==
  /\ QueryRead
  /\ last.cmd = READ_MOTOR_STATUS
  /\ last.resp = TxtOff4
  /\ last.res.kind = "bool"
  /\ ~last.res.flag

\* the heater and process status queries of the device classes
HeaterStatusCommands ==
  {READ_PROCESS_HEATER_STATUS, READ_SURFACE_HEATER_STATUS}

\* C20: a heater/process status query (STATUS_1, STATUS_2) whose response
\* passes the last-character check returns a boolean that is true exactly
\* when the first two characters of the response are '11'; it never raises.
C20_HeaterCode ==
  (QueryRead /\ last.cmd \in HeaterStatusCommands /\ PassedLastChar) =>
    /\ last.exit = "return"
    /\ last.res.kind = "bool"
    /\ last.res.flag <=> /\ Len(last.resp) >= 2
                         /\ last.resp[1] = "1"
                         /\ last.resp[2] = "1"

\* ------------------------------------------------------------------------
\* Who writes the counter and the open flag
\* ------------------------------------------------------------------------

\* the step runs in the body of `async with self.lock`: a task held the
\* lock before it, or holds it after it, or a call that had the lock ended
\* in it
InsideLock ==
  \/ lock.locked
  \/ lock'.locked
  \/ (last'.task # 0 /\ last'.exit # "cancel_wait")

\* C21: the failure counter and the open flag change only in steps taken
\* while the instance's lock is held, whatever the operation (query,
\* command, close, entering and leaving the scope).
C21_WritesUnderLock ==
  [][(open' # open \/ timeouts' # timeouts) => InsideLock]_vars

\* ------------------------------------------------------------------------
\* Two devices share nothing
\* ------------------------------------------------------------------------

\* the step is a step of a call of device d
Acts(d) == \E t \in Tasks : at'[<<d, t>>] # at[<<d, t>>]

\* what device d owns: its attributes, its client object (open flag,
\* counter, stream), its lock object and the positions of its calls
Owned(d) ==
  <<hw[d], lockOf[d], clients[hw[d]], locks[NewLock(d)],
    [t \in Tasks |-> at[<<d, t>>]]>>

\* a call of device d is inside the lock
Inside(d) == \E t \in Tasks : at[<<d, t>>] \in {"conn", "read"}

\* a request of device d waits only for a call of device d, or has been
\* woken and runs next
BlockedByOwn(d) ==
  \A t \in Tasks :
    at[<<d, t>>] = "wait" =>
      \/ <<d, t>> \in locks[lockOf[d]].woken
      \/ \E u \in Tasks \ {t} : at[<<d, u>>] \in {"conn", "read"}
      \/ \E u \in Tasks \ {t} : <<d, u>> \in locks[lockOf[d]].woken

\* C22: a step of one device (a timeout, a forced close and a wait for the
\* lock included) leaves the other device's attributes, open flag,
\* counter, stream, lock and calls as they were, and a request of a
\* device is never kept waiting by a call of the other device.
C22_NoSharedState ==
  [][\A d \in Devices :
       Acts(d) =>
         \A e \in Devices \ {d} :
           /\ Owned(e)' = Owned(e)
           /\ BlockedByOwn(e)'
           /\ (~Inside(e) /\ LockOfDevice(e).waiters = << >>
                 => LockFree(LockOfDevice(e))')]_vars

\* device "a" has been closed at the ceiling with a request waiting for
\* its lock, while device "b" is open, has counted nothing and reads
C22_Witness ==
  /\ clients[hw["a"]].timeouts = max_timeouts
  /\ ~clients[hw["a"]].open
  /\ clients[hw["a"]].stream = "closed"
  /\ \E t \in Tasks : at[<<"a", t>>] = "wait"
  /\ clients[hw["b"]].open
  /\ clients[hw["b"]].timeouts = 0
  /\ \E t \in Tasks : at[<<"b", t>>] = "read"

\* ------------------------------------------------------------------------
\* Construction from an address
\* ------------------------------------------------------------------------

ColonCount(a) == Cardinality({i \in 1..Len(a) : a[i] = ":"})

ColonAt(a) == CHOOSE i \in 1..Len(a) : a[i] = ":"

HostPart(a) == SubSeq(a, 1, ColonAt(a) - 1)

PortPart(a) == SubSeq(a, ColonAt(a) + 1, Len(a))

\* host:port with a host and a port made of digits
WellFormedAddr(a) ==
  /\ ColonCount(a) = 1
  /\ HostPart(a) # << >>
  /\ PortPart(a) # << >>
  /\ \A i \in 1..Len(PortPart(a)) : PortPart(a)[i] \in Digits

\* the constructor takes the address for a serial port
SerialRoute(a) == StartsWith(a, DevPrefix) \/ StartsWith(a, ComPrefix)

C24_MalformedRejected ==
  /\ (dev.state = "made" /\ dev.kind = "tcp") => WellFormedAddr(addr)
  /\ dev.conn # "format"

\* C25: a query whose connect attempt fails adds one to the failure
\* counter, as a query whose read fails does, so that connect failures in
\* a row reach the ceiling.
C25_ConnectFailureCounted ==
  (last.op = "query" /\ last.conn = "fail") => last.to1 = last.to0 + 1

\* ------------------------------------------------------------------------
\* The mock devices: what get reports after set and control
\* ------------------------------------------------------------------------

\* the call of the step returned
Returned(op) == seen'.op = op /\ seen'.exit = "return"

\* two numbers less than 1 apart: equal up to the rounding of a device
\* that keeps whole numbers or converts units
Within1(a, b) ==
  /\ a.type \in {"int", "float"}
  /\ b.type \in {"int", "float"}
  /\ a.num * Pow10(b.scale) - b.num * Pow10(a.scale)
       < Pow10(a.scale + b.scale)
  /\ b.num * Pow10(a.scale) - a.num * Pow10(b.scale)
       < Pow10(a.scale + b.scale)

\* C26: on every mock class, after set(kind, v) has returned, the
\* setpoint that get() or get_info() reports for that kind is v (up to
\* the device's rounding, and where the reply has that setpoint), and no
\* other call changes what is reported for it.
C26_SetGetRoundTrip ==
  [][\A k \in SetKinds(mock.cls) :
       IF Returned("set") /\ seen'.kind = k
         THEN Report(mock').sp[k].type # "none"
                => Within1(Report(mock').sp[k], seen'.value)
         ELSE Report(mock').sp[k] = Report(mock).sp[k]]_vars

\* C27: on every mock class, after control(equipment, on) has returned
\* the active flag that get() reports for that equipment is `on` and the
\* flag reported for the other equipment is as it was; no other call
\* changes a reported flag.
C27_ControlSetsOwnFlag ==
  [][\A e \in Equipment(mock.cls) :
       IF Returned("control") /\ seen'.kind = e
         THEN Report(mock').on[e] = seen'.on
         ELSE Report(mock').on[e] = Report(mock).on[e]]_vars

\* the shaker's motor, running since construction, has just been stopped
\* by control while its heater, started by an earlier control, stays on
C27_Witness ==
  /\ mock.cls = "Shaker"
  /\ seen.op = "control"
  /\ seen.kind = "shaker"
  /\ seen.exit = "return"
  /\ ~seen.on
  /\ ~mock.on.speed
  /\ mock.on.temp

\* lo <= v <= hi, for whole numbers lo and hi
InRange(v, lo, hi) ==
  lo * Pow10(v.scale) <= v.num /\ v.num <= hi * Pow10(v.scale)

\* the step is shaker.set(equipment, v) with v in [lo, hi] or not
ShakerSets(equipment, lo, hi, inside) ==
  /\ mock.cls = "Shaker"
  /\ seen'.op = "set"
  /\ seen'.kind = equipment
  /\ InRange(seen'.value, lo, hi) = inside

\* C28: Shaker.set with a speed outside [300, 3000] or a temperature
\* outside [1, 100] raises ValueError, hands nothing to the device and
\* leaves the stored setpoints as they were; with a value inside the range
\* it returns, and the command carrying the value has reached the device,
\* which stores it.
C28_ShakerSetRange ==
  [][/\ (ShakerSets("shaker", 300, 3000, FALSE)
           \/ ShakerSets("heater", 1, 100, FALSE)) =>
          /\ seen'.exit = "raise"
          /\ seen'.exc = "ValueError"
          /\ seen'.sent = << >>
          /\ mock' = mock
     /\ ShakerSets("shaker", 300, 3000, TRUE) =>
          /\ seen'.exit = "return"
          /\ seen'.sent = ShakerProtocol.SET_SPEED \o StrOf(seen'.value)
          /\ NumEq(mock'.sp.speed, seen'.value)
     /\ ShakerSets("heater", 1, 100, TRUE) =>
          /\ seen'.exit = "return"
          /\ seen'.sent = ShakerProtocol.SET_TEMP \o StrOf(seen'.value)
          /\ NumEq(mock'.sp.temp, seen'.value)]_vars

\* a speed of 3001 has just been refused by a shaker that holds the speed
\* 3000 and the temperature 100 from earlier calls of set
C28_Witness ==
  /\ mock.cls = "Shaker"
  /\ seen.op = "set"
  /\ seen.kind = "shaker"
  /\ seen.value = PyInt(3001)
  /\ seen.exit = "raise"
  /\ mock.sp.speed = PyFloat(3000, 0)
  /\ mock.sp.temp = PyFloat(100, 0)

\* the response read has the sentinel in it and either ends with another
\* character than the command or has the whole command in it
SentinelAndOther(command, response) ==
  /\ Contains(response, S_IN_PV_4)
  /\ \/ LastChar(response) # LastChar(command)
     \/ Contains(response, command)

\* C29: decode precedence.  When the response to a command that is not of
\* the identity family both contains the cross-wired sentinel and fails
\* the last-character check (or echoes the full command), query raises the
\* configuration-fault error in the step that reads the line: nothing is
\* drained, and neither none nor a payload is returned.
C29_SentinelFirst ==
  [][\A t \in Tasks :
       (LineRead(t) /\ call[t].cmd \notin IdentityCommands
          /\ SentinelAndOther(call[t].cmd, ReadResponse)) =>
         /\ pc'[t] = "idle"
         /\ last'.task = t
         /\ last'.exit = "raise"
         /\ last'.res = RRaise("ConnectionError")]_vars

\* the query 'IN_PV_3' read 'IN_PV_4', which has the sentinel and ends
\* with 4 instead of 3, and raised the configuration-fault error
C29_Witness ==
  /\ QueryRead
  /\ last.cmd = READ_PT1000
  /\ last.resp = TxtSentinel
  /\ LastChar(last.resp) # LastChar(last.cmd)
  /\ RaisedConfigFault

\* C30: on a last-character mismatch the drain is best-effort and bounded.
\* Whichever way the one read of the drain ends (stray bytes read, or
\* nothing arrives and the read times out), query returns none without
\* raising, the connection is still open and the failure counter is 0.
C30_DrainBestEffort ==
  [][\A t \in Tasks :
       (EndsAfterMismatch(t) /\ ~peerClosed /\ ~peerClosed') =>
         /\ last'.exit = "return"
         /\ last'.res = RNone
         /\ open' /\ streamOpen'
         /\ timeouts' = 0]_vars

\* the open flag goes from true to false in this step
LeavesConnected == open /\ ~open'

\* C31: the connection leaves the Connected state only through an explicit
\* close() or through the failure counter reaching the ceiling: in every
\* other step (a successful exchange, a decode error, a last-character
\* mismatch, a read timeout below the ceiling, a cancellation) an open
\* connection stays open.  The initial state is Disconnected, with no
\* stream and no connect attempt made.
C31_LeavesConnected ==
  /\ ~open /\ connection = "empty" /\ \A t \in Tasks : pc[t] # "conn"
  /\ [][LeavesConnected =>
          \/ last'.op = "close"
          \/ /\ last'.op = "query"
             /\ last'.read \in {"timeout", "oserror"}
             /\ timeouts' = timeouts + 1
             /\ timeouts' = max_timeouts]_vars

\* the tenth read timeout in a row has closed the connection
C31_Witness ==
  /\ last.op = "query"
  /\ last.read = "timeout"
  /\ last.wasOpen /\ ~last.openAfter /\ ~open
  /\ last.to1 = max_timeouts

\* task t goes into the locked section of its call in this step, on a TCP
\* client whose connection is open
EntersOnOpen(t) ==
  /\ kind = "tcp"
  /\ open
  /\ pc[t] \in {"idle", "wait"}
  /\ \/ pc'[t] \in {"conn", "read", "clear"}
     \/ last'.task = t /\ last'.exit # "cancel_wait"

\* C32: ensureConnected on an already open connection is a no-op.  A call
\* that finds the connection open makes no connect attempt, does not
\* close or replace the stream, and leaves the open flag, the failure
\* counter and the reconnecting flag as they were.
C32_EnsureNoOp ==
  [][\A t \in Tasks :
       EntersOnOpen(t) =>
         /\ pc'[t] # "conn"
         /\ last'.task = t => last'.conn = "none"
         /\ open' = open
         /\ timeouts' = timeouts
         /\ reconnecting' = reconnecting
         /\ connection' = connection
         /\ streamOpen' = streamOpen
         /\ rxbuf' = rxbuf]_vars

\* a command found the connection open after earlier read timeouts, made
\* no connect attempt and wrote; the counter is as it was
C32_Witness ==
  /\ kind = "tcp"
  /\ last.op = "command"
  /\ last.wasOpen /\ last.openAfter
  /\ last.conn = "none"
  /\ last.wrote
  /\ last.to0 > 0 /\ last.to1 = last.to0

\* the last request was made while the first connect attempt failed, or
\* its read timed out
LegacyTransient ==
  /\ request.pc = "idle"
  /\ request.exit # ""
  /\ \/ request.conn = "fail" /\ request.first
     \/ request.read = "timeout"

\* C33: in the Transport of driver_pat.py transient faults are absorbed.  A
\* request made while the first connect attempt fails, and each of any
\* number of consecutive read timeouts (the 10th included), returns None
\* without raising, and the lock is released afterwards.
C33_LegacyAbsorbs ==
  LegacyTransient =>
    /\ request.exit = "return"
    /\ request.res = "none"
    /\ ~transport.locked

\* C34: in every reachable state of a TCP client the failure counter is
\* between 0 and the ceiling, and whenever it is at the ceiling after a
\* query the connection is closed: a failure streak that goes on after the
\* forced close and a reconnect closes again and never counts past 10.
C34_CounterBounded ==
  kind = "tcp" =>
    /\ timeouts >= 0
    /\ timeouts <= max_timeouts
    /\ (last.op = "query" /\ last.to1 = max_timeouts) => ~open

\* C35: a response that arrives after its query gave up with a read
\* timeout is never returned as the result of a later query: every value
\* a query returns was decoded from a line that the device sent in reply
\* to that query's own command, not to a query that had timed out.
C35_NoLateResponse ==
  ReturnedValue => ~(last.by # last.task /\ last.why = "timedout")

\* C36: every query and command call on a TCP device terminates.  Under
\* fair scheduling, whatever the device does (never accepts, never
\* answers, answers garbage), each call that has started eventually ends
\* (with a value, none or an error), and every caller that waits for the
\* lock eventually stops waiting.
C36_Terminates ==
  \A t \in Tasks :
    /\ (kind = "tcp" /\ pc[t] # "idle") ~> (pc[t] = "idle")
    /\ (kind = "tcp" /\ pc[t] = "wait") ~> (pc[t] # "wait")

\* the device did not answer, the query returned none, and the caller that
\* was waiting for the lock has been woken
C36_Witness ==
  /\ kind = "tcp"
  /\ last.op = "query"
  /\ last.read = "timeout"
  /\ last.exit = "return"
  /\ \E u \in Tasks : pc[u] = "wait" /\ u \in lock.woken

\* the errors the decode chain is meant to raise: the configuration fault
\* and the numeric parse error
DecodeErrors == {"ConnectionError", "ValueError"}

\* C37: an empty response line (the device sends only the end-of-line
\* marker, or a serial read times out and gives the empty string) to a
\* command that is not of the identity family makes query return none,
\* and query never raises an error other than the configuration-fault
\* error and the numeric parse error.  (last.why is set when the call
\* decoded a line it read, and empty when it ended in the drain.)
C37_EmptyLineNone ==
  /\ (QueryRead /\ last.why # "" /\ last.cmd \notin IdentityCommands
        /\ last.resp = << >>) =>
       (last.exit = "return" /\ last.res = RNone)
  /\ (last.op = "query" /\ last.exit = "raise") =>
       last.res.exc \in DecodeErrors

\* C38: the lazily constructed lock is created at most once per device
\* instance.  For any interleaving of first-time query and command calls
\* all callers synchronise on the same lock object: once there is a lock
\* it is never replaced, and every call that is under way was started
\* with that lock in place.
C38_LockMadeOnce ==
  /\ lock.ident = 0 /\ ~lock.made
  /\ [][/\ lock.made => (lock'.made /\ lock'.ident = lock.ident)
        /\ lock'.ident \in {lock.ident, 1}
        /\ (\E t \in Tasks : pc'[t] # "idle") => lock'.ident = 1]_vars

\* two first-time calls have been made: one is inside the locked section,
\* the other waits in the queue of the same lock object
C38_Witness ==
  /\ lock.ident = 1
  /\ lock.locked
  /\ pc[1] = "conn"
  /\ pc[2] = "wait"
  /\ lock.waiters = <<2>>
  /\ connection = "empty"

\* a connect attempt of task t ends in this step
ConnectEnds(t) == pc[t] = "conn" /\ pc'[t] # "conn" /\ last'.exit # "cancel_hold"

\* C39: a TCP client owns at most one live stream at any time.  Whenever
\* the open flag is true a reader and a writer exist and the writer is not
\* closed, and a writer that is not closed belongs to an open client;
\* whenever a new stream is opened the previous writer has already been
\* closed; a failed or timed-out connect attempt leaves no stream behind.
C39_OneStream ==
  /\ [](kind = "tcp" =>
         /\ open => (connection = "stream" /\ streamOpen)
         /\ streamOpen => open)
  /\ [][\A t \in Tasks :
         (kind = "tcp" /\ ConnectEnds(t)) =>
           /\ ~streamOpen
           /\ open' = streamOpen'
           /\ last'.conn = "fail" => (~open' /\ ~streamOpen')]_vars

\* the tenth timeout closed the writer, and the next call has opened a new
\* stream: the counter is still at the ceiling on an open connection
C39_Witness ==
  /\ kind = "tcp"
  /\ open /\ streamOpen
  /\ connection = "stream"
  /\ timeouts = max_timeouts

\* C40: for a serial client the open flag is true only while the serial
\* port is actually open: after close() (explicit, or forced by the
\* failure ceiling) the flag is false.
C40_SerialFlag ==
  kind = "serial" =>
    /\ open => streamOpen
    /\ last.op = "close" => ~open

====
